---- MODULE Spec2Model ----
\* Session store, RAG pipeline and chat handlers of the news assistant.
\*
\* The store is the Redis key space the SessionManager writes ("session:<id>"
\* and "chat_history:<id>").  Every async method is cut at its awaits: one
\* action is one Redis (or upstream) command together with the synchronous code
\* that runs after it, up to the next await.  A task is one running call of a
\* SessionManager method or of a request handler.
EXTENDS Integers, Sequences, FiniteSets, TLC

VARIABLES session, chat_history, issued, now, faults, tasks

vars == <<session, chat_history, issued, now, faults, tasks>>
storeVars == <<session, chat_history, issued, now, faults>>

\* ------------------------------------------------------------------ bounds
NumIds == 2
NumTasks == 2
MaxHistory == 2
MaxCount == 3
MaxClock == 86400
MaxStoreFaults == 1
LongHistory == 52
MaxArticles == 2
MaxChunks == 2
MaxChatHistory == 3
MaxOverlapHistory == 1
MaxMatches == 6
MaxContextTurns == 12
MaxEmbedArticles == 3

\* ------------------------------------------------------------------ program constants
sessionTTL == 86400
HistoryLimit == 50
TitleMax == 50
TitleCut == 47
maxContextArticles == 5
maxHistoryLength == 10
EmbedTextMax == 8000
SearchDefaultLimit == 10

SessionIds == {"s" \o ToString(i) : i \in 1..NumIds}
TaskIds == 1..NumTasks
NoId == "none"

\* ------------------------------------------------------------------ strings
\* A JavaScript string is the sequence of its characters.
Rep(c, n) == [i \in 1..n |-> c]

RECURSIVE TrimStart(_)
TrimStart(s) == IF s # <<>> /\ Head(s) = " " THEN TrimStart(Tail(s)) ELSE s

RECURSIVE TrimEnd(_)
TrimEnd(s) ==
    IF s # <<>> /\ s[Len(s)] = " " THEN TrimEnd(SubSeq(s, 1, Len(s) - 1)) ELSE s

Trim(s) == TrimEnd(TrimStart(s))

Substring(s, from, to) == SubSeq(s, from + 1, IF to < Len(s) THEN to ELSE Len(s))

IsBlank(s) == Trim(s) = <<>>

NewChat == <<"N", "e", "w", " ", "C", "h", "a", "t">>
Ellipsis == <<".", ".", ".">>

\* A JavaScript value handed in as a title or a message.
Undefined == [k |-> "undefined", s |-> <<>>]
Null == [k |-> "null", s |-> <<>>]
Number5 == [k |-> "number", s |-> <<>>]
Str(s) == [k |-> "string", s |-> s]

Truthy(v) == v.k = "number" \/ (v.k = "string" /\ v.s # <<>>)

\* title && title.trim() !== "" ? title.trim() : "New Chat"
\* (a truthy value that is no string has no trim(): TypeError)
SafeTitleBlankKept(title) ==
    IF ~Truthy(title) THEN [throws |-> FALSE, val |-> NewChat]
    ELSE IF title.k # "string" THEN [throws |-> TRUE, val |-> <<>>]
    ELSE [throws |-> FALSE, val |-> title.s]

SafeTitle(title) ==
    IF ~Truthy(title) THEN [throws |-> FALSE, val |-> NewChat]
    ELSE IF title.k # "string" THEN [throws |-> TRUE, val |-> <<>>]
    ELSE IF Trim(title.s) # <<>> THEN [throws |-> FALSE, val |-> Trim(title.s)]
    ELSE [throws |-> FALSE, val |-> NewChat]

\* createSession(title = "New Chat"): the default replaces undefined only.
DefaultTitle(title) == IF title.k = "undefined" THEN Str(NewChat) ELSE title

\* autoGenerateTitle's derivation with the truncation left out.
AutoTitleNoCut(firstMessage) ==
    IF ~Truthy(firstMessage) THEN [kind |-> "skip", val |-> <<>>]
    ELSE IF firstMessage.k # "string" THEN [kind |-> "throw", val |-> <<>>]
    ELSE IF Len(Trim(firstMessage.s)) = 0 THEN [kind |-> "skip", val |-> <<>>]
    ELSE [kind |-> "title", val |-> Trim(firstMessage.s)]

\* autoGenerateTitle's derivation of the title from the first message.
AutoTitle(firstMessage) ==
    IF ~Truthy(firstMessage) THEN [kind |-> "skip", val |-> <<>>]
    ELSE IF firstMessage.k # "string" THEN [kind |-> "throw", val |-> <<>>]
    ELSE IF Len(Trim(firstMessage.s)) = 0 THEN [kind |-> "skip", val |-> <<>>]
    ELSE LET trimmedMessage == Trim(firstMessage.s)
         IN  [kind |-> "title",
              val |-> IF Len(trimmedMessage) > TitleMax
                      THEN Substring(trimmedMessage, 0, TitleCut) \o Ellipsis
                      ELSE trimmedMessage]

\* ------------------------------------------------------------------ store
NoSessionData ==
    [id |-> NoId, title |-> Undefined, createdAt |-> 0, lastActivity |-> 0,
     messageCount |-> 0, isActive |-> FALSE]

NoKey == [present |-> FALSE, val |-> NoSessionData, ttl |-> 0]
NoHistKey == [present |-> FALSE, val |-> <<>>, ttl |-> 0]

\* redis.setex(key, sessionTTL, JSON.stringify(val))
Setex(val) == [present |-> TRUE, val |-> val, ttl |-> sessionTTL]

\* redis.expire(key, sessionTTL): nothing happens to a key that is absent
Expire(entry) == IF entry.present THEN [entry EXCEPT !.ttl = sessionTTL] ELSE entry

\* chatHistory.slice(-limit)
\* (slice(-0) is slice(0), the whole array; a negative limit drops a prefix)
SliceLast(h, limit) ==
    IF limit = 0 THEN h
    ELSE IF limit < 0 THEN SubSeq(h, 1 - limit, Len(h))
    ELSE IF Len(h) > limit THEN SubSeq(h, Len(h) - limit + 1, Len(h)) ELSE h

\* getChatHistory(sessionId, limit = 50) of a present key
GetChatHistory(h, limit) == SliceLast(h, limit)

NoMessage == [type |-> "", content |-> <<>>, hasSources |-> FALSE, sources |-> <<>>]
NoTurn ==
    [type |-> "", content |-> <<>>, hasSources |-> FALSE, sources |-> <<>>,
     timestamp |-> 0]

\* { ...message, timestamp: new Date().toISOString() }
MessageData(message, at) ==
    [type |-> message.type, content |-> message.content,
     hasSources |-> message.hasSources, sources |-> message.sources,
     timestamp |-> at]

\* ------------------------------------------------------------------ pipeline data
\* Fixed texts of the pipelines are kept whole, as one element of the string.
NoArticlesText ==
    <<"I couldn't find any relevant news articles to answer your question. Please try rephrasing your question or ask about a different topic.">>
ErrorText ==
    <<"I'm sorry, I encountered an error while processing your question. Please try again later.">>
FallbackPlain ==
    <<"Based on recent news, I found some relevant articles but couldn't generate a detailed response. Here are the key sources that might help answer your question: ">>
FallbackStream ==
    <<"Based on recent news, I found some relevant articles but couldn't generate a detailed response. Here are the key sources that might help: ">>
FallbackContext ==
    <<"Based on our conversation and recent news, I found some relevant articles but couldn't generate a detailed response. Here are the key sources that might help: ">>

Article(n) ==
    [id |-> n, score |-> 10 - n, title |-> <<"t", ToString(n)>>,
     url |-> "u" \o ToString(n), publishedAt |-> "d" \o ToString(n),
     source |-> "src", description |-> <<"d">>, content |-> <<"c">>]

\* relevantArticles.map((article) => ({title, url, source, publishedAt, score}))
Source(article) ==
    [title |-> article.title, url |-> article.url, source |-> article.source,
     publishedAt |-> article.publishedAt, score |-> article.score]

Sources(articles) == [n \in DOMAIN articles |-> Source(articles[n])]

\* sources.map((s) => s.title).join(", ")
RECURSIVE JoinTitles(_)
JoinTitles(articles) ==
    IF articles = <<>> THEN <<>>
    ELSE IF Len(articles) = 1 THEN articles[1].title
    ELSE articles[1].title \o <<",", " ">> \o JoinTitles(Tail(articles))

Streaming(variant) == variant \in {"processQueryStream", "processQueryWithContextStream"}
Contextual(variant) ==
    variant \in {"processQueryWithContext", "processQueryWithContextStream"}

FallbackPrefix(variant) ==
    IF Contextual(variant) THEN FallbackContext
    ELSE IF Streaming(variant) THEN FallbackStream
    ELSE FallbackPlain

\* (a generation fallback with the wording of the outer catch)
GenerationFallbackGeneric(variant, articles) == ErrorText

\* the text returned when the generation call fails
GenerationFallback(variant, articles) ==
    FallbackPrefix(variant) \o JoinTitles(articles) \o <<".">>

NoContext == [kind |-> "null", val |-> <<>>]
NoResult == [response |-> <<>>, sources |-> <<>>, sessionId |-> NoId, hasError |-> FALSE]

Event(to, ev, text, sources, sessionId, hasError) ==
    [to |-> to, ev |-> ev, text |-> text, sources |-> sources,
     sessionId |-> sessionId, hasError |-> hasError]

\* what a method returned: null, a boolean or a list of turns
NoRet == [k |-> "none", b |-> FALSE, list |-> <<>>]
RetNull == [k |-> "null", b |-> FALSE, list |-> <<>>]
RetBool(b) == [k |-> "boolean", b |-> b, list |-> <<>>]
RetList(list) == [k |-> "array", b |-> FALSE, list |-> list]

\* ------------------------------------------------------------------ tasks
IdleTask ==
    [op |-> "idle", pc |-> "idle", stack |-> <<>>, sid |-> NoId,
     title |-> Undefined, safeTitle |-> <<>>, firstMessage |-> Undefined,
     message |-> NoMessage,
     chatHistory |-> <<>>, sessionData |-> NoSessionData,
     keys |-> <<>>, sessions |-> <<>>,
     variant |-> "", socket |-> FALSE, query |-> Undefined,
     ctxHistory |-> NoContext, conversationContext |-> <<>>,
     relevantArticles |-> <<>>,
     fullResponse |-> <<>>, yielded |-> <<>>, ragResult |-> NoResult,
     events |-> <<>>, outcome |-> "",
     reqMessage |-> Undefined, reqSid |-> NoId, isNewSession |-> FALSE,
     historyAtStart |-> <<>>, existedAtStart |-> FALSE,
     limit |-> 0, ret |-> NoRet,
     reqTitle |-> Undefined, clearHistory |-> Undefined, deleteSession |-> Undefined,
     sentTitle |-> Undefined,
     articles |-> <<>>, texts |-> <<>>, articlesWithEmbeddings |-> <<>>,
     result |-> "none", error |-> "", storeFailed |-> FALSE]

Running(t) == t.op # "idle" /\ t.pc # "done"
Finished(t) == t.op # "idle" /\ t.pc = "done"

\* A call returns: back to the label its caller left on the stack.
Return(t) ==
    IF t.stack = <<>> THEN [t EXCEPT !.pc = "done", !.result = "ok"]
    ELSE [t EXCEPT !.pc = Head(t.stack), !.stack = Tail(t.stack)]

\* An exception unwinds to the innermost try/catch that does not rethrow:
\* the two in autoGenerateTitle and the one around each request handler;
\* everything else in the session manager logs and rethrows.
Handlers == {"sendMessage", "postChat"}

\* The session routes of chat.js (PUT, DELETE and POST under /sessions) and the
\* socket events "update-session-title" and "create-session": each body is one
\* try whose catch answers HTTP 500 or the error event.
Routes == {"putSession", "onUpdateSessionTitle", "deleteSessionRoute", "postSessions",
           "onCreateSession"}

RECURSIVE Unwind(_)
Unwind(t) ==
    IF t.stack = <<>>
    THEN IF t.op \in Handlers THEN [t EXCEPT !.pc = "h_catch"]
         ELSE IF t.op \in Routes THEN [t EXCEPT !.pc = "rt_catch"]
         ELSE [t EXCEPT !.pc = "done", !.result = "error"]
    ELSE LET top == Head(t.stack)
             rest == Tail(t.stack)
         IN  CASE top = "agt_ret1" -> [t EXCEPT !.pc = "agt_fallback", !.stack = rest]
               [] top = "agt_ret2" -> [t EXCEPT !.pc = "agt_swallowed", !.stack = rest]
               [] OTHER -> Unwind([t EXCEPT !.stack = rest])

Throw(t, err) == Unwind([t EXCEPT !.error = err])

Emit(t, e) == [t EXCEPT !.events = Append(@, e)]

\* if (socket) socket.emit(ev, ...): only the streaming pipelines emit
SocketEmit(t, ev, text, sources, hasError) ==
    IF Streaming(t.variant) /\ t.socket
    THEN Emit(t, Event("socket", ev, text, sources, t.sid, hasError))
    ELSE t

\* return { response, sources, sessionId [, error] }
PipelineReturn(t, response, sources, hasError, outcome) ==
    Return([t EXCEPT !.ragResult = [response |-> response, sources |-> sources,
                                    sessionId |-> t.sid, hasError |-> hasError],
                     !.outcome = outcome,
                     !.relevantArticles = <<>>, !.fullResponse = <<>>,
                     !.conversationContext = <<>>])

\* (a pipeline whose catch logs and rethrows)
PipelineCatchRethrows(t, outcome) == Throw([t EXCEPT !.outcome = outcome], "UpstreamError")

\* the catch of processQuery, processQueryWithContext and their streaming twins
PipelineCatch(t, outcome) ==
    PipelineReturn(SocketEmit(t, "stream-complete", ErrorText, <<>>, TRUE),
                   ErrorText, <<>>, TRUE, outcome)

\* the zero-article branch
PipelineNoArticles(t) ==
    PipelineReturn(SocketEmit(t, "stream-complete", NoArticlesText, <<>>, FALSE),
                   NoArticlesText, <<>>, FALSE, "noArticles")

\* (a catch that returns the fallback text without the completion signal)
GenerationCatchSilent(t) ==
    PipelineReturn(t, GenerationFallback(t.variant, t.relevantArticles),
                   Sources(t.relevantArticles), FALSE, "generationFailed")

\* the catch of generateResponse and its contextual and streaming twins
GenerationCatch(t) ==
    LET fallbackResponse == GenerationFallback(t.variant, t.relevantArticles)
        sources == Sources(t.relevantArticles)
    IN  PipelineReturn(SocketEmit(t, "stream-complete", fallbackResponse, sources, FALSE),
                       fallbackResponse, sources, FALSE, "generationFailed")

\* (a pipeline that returns its text without the completion signal)
GenerationDoneSilent(t) ==
    PipelineReturn(t, t.fullResponse, Sources(t.relevantArticles), FALSE, "generated")

\* the generator is exhausted: the completion signal and the result
GenerationDone(t) ==
    LET sources == Sources(t.relevantArticles)
    IN  PipelineReturn(SocketEmit(t, "stream-complete", t.fullResponse, sources, FALSE),
                       t.fullResponse, sources, FALSE, "generated")

RouteLabels == {"rt_put_begin", "rt_put_checked", "rt_put_updated", "rt_sut_begin",
                "rt_sut_updated", "rt_del_begin", "rt_del_checked", "rt_del_deleted",
                "rt_del_cleared", "rt_ps_begin", "rt_ps_created", "rt_catch"}

\* context += `User: ${message.content}\n` / `Assistant: ${message.content}\n`;
\* a turn of another type adds nothing
RECURSIVE ContextLines(_)
ContextLines(recentMessages) ==
    IF recentMessages = <<>> THEN <<>>
    ELSE LET message == Head(recentMessages)
         IN  (CASE message.type = "user" -> <<"User: ">> \o message.content \o <<"\n">>
                [] message.type = "assistant" ->
                     <<"Assistant: ">> \o message.content \o <<"\n">>
                [] OTHER -> <<>>)
             \o ContextLines(Tail(recentMessages))

\* (a context built from the whole history)
GetConversationContextWhole(chatHistory) ==
    IF chatHistory.kind # "array" \/ chatHistory.val = <<>> THEN <<>>
    ELSE <<"Previous conversation context:\n">> \o ContextLines(chatHistory.val)
         \o <<"\n">>

\* getConversationContext(chatHistory, maxHistoryLength = 10), for null and
\* for an array
GetConversationContext(chatHistory) ==
    IF chatHistory.kind # "array" \/ chatHistory.val = <<>> THEN <<>>
    ELSE <<"Previous conversation context:\n">>
         \o ContextLines(SliceLast(chatHistory.val, maxHistoryLength))
         \o <<"\n">>

LocalLabels == RouteLabels \cup
               {"cs_begin", "agt_begin", "agt_ret1", "agt_fallback", "agt_ret2",
                "agt_swallowed", "pq_begin", "h_begin", "h_created", "h_userAdded",
                "h_titled", "h_query", "h_ragDone", "h_asstAdded", "h_catch"}

\* (a validation that does not trim)
ValidMessageUntrimmed(message) == message.k = "string" /\ Len(message.s) # 0

\* !message || typeof message !== "string" || message.trim().length === 0
ValidMessage(message) == message.k = "string" /\ Len(Trim(message.s)) # 0

\* { type: "user", content: message.trim() }
UserTurn(message) ==
    [type |-> "user", content |-> Trim(message.s), hasSources |-> FALSE,
     sources |-> <<>>]

\* (an assistant turn stored without its sources)
AssistantTurnNoSources(ragResult) ==
    [type |-> "assistant", content |-> ragResult.response, hasSources |-> TRUE,
     sources |-> <<>>]

\* { type: "assistant", content: ragResult.response, sources: ragResult.sources }
AssistantTurn(ragResult) ==
    [type |-> "assistant", content |-> ragResult.response, hasSources |-> TRUE,
     sources |-> ragResult.sources]

CallProc(t, entry, ret) == [t EXCEPT !.pc = entry, !.stack = <<ret>> \o t.stack]

\* the handler is over: its locals are gone, what it sent stays
EndHandler(t, result) ==
    [t EXCEPT !.pc = "done", !.result = result, !.stack = <<>>,
              !.ctxHistory = NoContext, !.message = NoMessage,
              !.firstMessage = Undefined, !.title = Undefined,
              !.query = Undefined, !.variant = "", !.socket = FALSE]

\* the request handlers of socketChat.js ("send-message") and chat.js (POST /)
HandlerStep(t) ==
    CASE t.pc = "h_begin" ->
           IF ~ValidMessage(t.reqMessage)
           THEN EndHandler(
                  [Emit(t, IF t.op = "sendMessage"
                           THEN Event("socket", "error", <<>>, <<>>, NoId, FALSE)
                           ELSE Event("http", "400", <<>>, <<>>, NoId, FALSE))
                   EXCEPT !.outcome = "invalid"], "ok")
           ELSE IF t.reqSid = NoId
                THEN CallProc([t EXCEPT !.title = Undefined], "cs_begin", "h_created")
                ELSE [t EXCEPT !.pc = "h_exists", !.sid = t.reqSid]
      [] t.pc = "h_created" -> [t EXCEPT !.pc = "h_getHist", !.isNewSession = TRUE]
      [] t.pc = "h_userAdded" ->
           IF t.isNewSession
           THEN CallProc([t EXCEPT !.firstMessage = Str(Trim(t.reqMessage.s))],
                         "agt_begin", "h_titled")
           ELSE IF t.op = "sendMessage" THEN [t EXCEPT !.pc = "sm_getSession"]
           ELSE [t EXCEPT !.pc = "h_query"]
      [] t.pc = "h_titled" -> [t EXCEPT !.pc = "h_query", !.firstMessage = Undefined]
      [] t.pc = "h_query" ->
           IF t.op = "sendMessage"
           THEN CallProc(
                  [Emit(t, Event("room", "user-message", Trim(t.reqMessage.s), <<>>,
                                 t.sid, FALSE))
                   EXCEPT !.variant = "processQueryWithContextStream",
                          !.socket = TRUE, !.query = Str(Trim(t.reqMessage.s))],
                  "pq_begin", "h_ragDone")
           ELSE CallProc([t EXCEPT !.variant = "processQueryWithContext",
                                   !.socket = FALSE,
                                   !.query = Str(Trim(t.reqMessage.s))],
                         "pq_begin", "h_ragDone")
      [] t.pc = "h_ragDone" ->
           CallProc([t EXCEPT !.message = AssistantTurn(t.ragResult)],
                    "am_get", "h_asstAdded")
      [] t.pc = "h_asstAdded" ->
           EndHandler(
             Emit(t, IF t.op = "sendMessage"
                     THEN Event("room", "assistant-message", t.ragResult.response,
                                t.ragResult.sources, t.sid, FALSE)
                     ELSE Event("http", "200", t.ragResult.response,
                                t.ragResult.sources, t.sid, FALSE)), "ok")
      [] OTHER ->
           \* "h_catch"
           EndHandler(
             Emit(t, IF t.op = "sendMessage"
                     THEN Event("socket", "error", <<>>, <<>>, NoId, TRUE)
                     ELSE Event("http", "500", <<>>, <<>>, NoId, TRUE)), "error")

\* A query-string flag is a string when given; the destructuring defaults
\* { clearHistory = true, deleteSession = false } are booleans.
JsTrue == [k |-> "boolean", s |-> <<"true">>]
JsFalse == [k |-> "boolean", s |-> <<"false">>]
TrueString == Str(<<"t", "r", "u", "e">>)
FalseString == Str(<<"f", "a", "l", "s", "e">>)

\* const { name = dflt } = ...: the default replaces undefined only
Default(v, dflt) == IF v.k = "undefined" THEN dflt ELSE v

\* the route is over: its locals are gone, what it sent stays
EndRoute(t, outcome, result) ==
    [t EXCEPT !.pc = "done", !.result = result, !.outcome = outcome, !.stack = <<>>,
              !.title = Undefined, !.ret = NoRet]

\* res.status(code).json(...)
Respond(t, code, text) == Emit(t, Event("http", code, text, <<>>, t.reqSid, FALSE))

\* the session routes of chat.js and the session events of socketChat.js
RouteStep(t) ==
    CASE t.pc = "rt_put_begin" ->
           \* if (!title) return res.status(400)
           IF ~Truthy(t.reqTitle)
           THEN EndRoute(Respond(t, "400", <<>>), "invalid", "ok")
           ELSE CallProc([t EXCEPT !.sid = t.reqSid], "se_exists", "rt_put_checked")
      [] t.pc = "rt_put_checked" ->
           IF ~t.ret.b
           THEN EndRoute(Respond(t, "404", <<>>), "notFound", "ok")
           ELSE CallProc([t EXCEPT !.title = t.reqTitle], "ust_get", "rt_put_updated")
      [] t.pc = "rt_put_updated" ->
           \* res.json({ session: updatedSession })
           EndRoute(Respond(t, "200", SafeTitle(t.title).val), "updated", "ok")
      [] t.pc = "rt_sut_begin" ->
           \* if (!sessionId || !title) { socket.emit("error"); return; }
           IF t.reqSid = NoId \/ ~Truthy(t.reqTitle)
           THEN EndRoute(Emit(t, Event("socket", "error", <<>>, <<>>, NoId, FALSE)),
                         "invalid", "ok")
           ELSE CallProc([t EXCEPT !.sid = t.reqSid, !.title = t.reqTitle],
                         "ust_get", "rt_sut_updated")
      [] t.pc = "rt_sut_updated" ->
           \* socket.emit("session-updated", { session: updatedSession });
           \* socket.to(sessionId).emit("session-title-updated", { sessionId, title })
           EndRoute(
             [Emit(Emit(t, Event("socket", "session-updated", SafeTitle(t.title).val,
                                 <<>>, t.sid, FALSE)),
                   Event("room", "session-title-updated", <<>>, <<>>, t.sid, FALSE))
              EXCEPT !.sentTitle = t.title], "updated", "ok")
      [] t.pc = "rt_del_begin" ->
           CallProc([t EXCEPT !.sid = t.reqSid], "se_exists", "rt_del_checked")
      [] t.pc = "rt_del_checked" ->
           IF ~t.ret.b
           THEN EndRoute(Respond(t, "404", <<>>), "notFound", "ok")
           ELSE IF Default(t.deleteSession, JsFalse) = TrueString
           THEN CallProc(t, "ds_del_meta", "rt_del_deleted")
           ELSE IF Default(t.clearHistory, JsTrue) = TrueString
           THEN CallProc(t, "cch_setex", "rt_del_cleared")
           ELSE EndRoute(Respond(t, "400", <<>>), "invalid", "ok")
      [] t.pc = "rt_del_deleted" ->
           EndRoute(Respond(t, "200", <<"Session deleted successfully">>),
                    "deleted", "ok")
      [] t.pc = "rt_del_cleared" ->
           EndRoute(Respond(t, "200", <<"Chat history cleared successfully">>),
                    "cleared", "ok")
      [] t.pc = "rt_ps_begin" ->
           \* const { title = "New Chat" } = req.body (or data);
           \* createSession(title)
           CallProc([t EXCEPT !.title = Default(t.reqTitle, Str(NewChat))],
                    "cs_begin", "rt_ps_created")
      [] t.pc = "rt_ps_created" ->
           \* the payload carries the handler's own title variable
           IF t.op = "postSessions"
           THEN EndRoute(
                  [Emit(Emit(t, Event("all", "session-created", <<>>, <<>>, t.sid,
                                      FALSE)),
                        Event("http", "201", <<>>, <<>>, t.sid, FALSE))
                   EXCEPT !.sentTitle = t.title], "created", "ok")
           ELSE EndRoute(
                  [Emit(t, Event("socket", "session-created", <<>>, <<>>, t.sid, FALSE))
                   EXCEPT !.sentTitle = t.title], "created", "ok")
      [] OTHER ->
           \* "rt_catch"
           EndRoute(
             Emit(t, IF t.op \in {"onUpdateSessionTitle", "onCreateSession"}
                     THEN Event("socket", "error", <<>>, <<>>, NoId, TRUE)
                     ELSE Event("http", "500", <<>>, <<>>, NoId, TRUE)),
             "failed", "error")

\* The synchronous code between two awaits.
LocalStep(t) ==
    CASE t.pc = "cs_begin" ->
           LET safe == SafeTitle(DefaultTitle(t.title))
           IN  IF safe.throws THEN Throw(t, "TypeError")
               ELSE [t EXCEPT !.pc = "cs_setex_meta", !.safeTitle = safe.val]
      [] t.pc = "agt_begin" ->
           LET a == AutoTitle(t.firstMessage)
           IN  CASE a.kind = "skip" -> Return(t)
                 [] a.kind = "throw" ->
                      [t EXCEPT !.pc = "agt_fallback", !.error = "TypeError"]
                 [] OTHER ->
                      [t EXCEPT !.pc = "ust_get", !.title = Str(a.val),
                                !.stack = <<"agt_ret1">> \o t.stack]
      [] t.pc = "agt_ret1" -> Return(t)
      [] t.pc = "agt_fallback" ->
           [t EXCEPT !.pc = "ust_get", !.title = Str(NewChat),
                     !.stack = <<"agt_ret2">> \o t.stack]
      [] t.pc = "agt_ret2" -> Return(t)
      [] t.pc = "agt_swallowed" -> Return(t)
      [] t.pc = "pq_begin" ->
           \* getConversationContext(chatHistory): a value that is no array
           \* has no slice(): TypeError, caught by the pipeline
           IF Contextual(t.variant) /\ t.ctxHistory.kind = "number"
           THEN PipelineCatch(t, "contextFailed")
           ELSE [t EXCEPT !.pc = "pq_embed",
                          !.conversationContext =
                             IF Contextual(t.variant)
                             THEN GetConversationContext(t.ctxHistory) ELSE <<>>]
      [] t.pc \in RouteLabels -> RouteStep(t)
      [] OTHER -> HandlerStep(t)

RECURSIVE Run(_)
Run(t) ==
    IF t.pc \in LocalLabels
    THEN CHOOSE r \in {Run(u) : u \in {LocalStep(t)}} : TRUE
    ELSE t

Call(i, t) == tasks' = [tasks EXCEPT ![i] = Run(t)]

\* ------------------------------------------------------------------ createSession
cs_setex_meta(i) ==
    /\ tasks[i].pc = "cs_setex_meta"
    /\ \E sessionId \in SessionIds \ issued :
         /\ issued' = issued \cup {sessionId}
         /\ session' = [session EXCEPT ![sessionId] =
                Setex([id |-> sessionId, title |-> Str(tasks[i].safeTitle),
                       createdAt |-> now, lastActivity |-> now,
                       messageCount |-> 0, isActive |-> TRUE])]
         /\ Call(i, [tasks[i] EXCEPT !.sid = sessionId, !.pc = "cs_setex_hist",
                                      !.safeTitle = <<>>])
    /\ UNCHANGED <<chat_history, now, faults>>

cs_setex_hist(i) ==
    /\ tasks[i].pc = "cs_setex_hist"
    /\ chat_history' = [chat_history EXCEPT ![tasks[i].sid] = Setex(<<>>)]
    /\ Call(i, Return(tasks[i]))
    /\ UNCHANGED <<session, issued, now, faults>>

\* ------------------------------------------------------------------ addMessage
\* (addMessage's read with an absent history taken for an empty one)
am_absentHistoryAsEmpty(i) ==
    /\ tasks[i].pc = "am_get"
    /\ LET t == tasks[i]
           key == chat_history[t.sid]
       IN  Call(i, [t EXCEPT
                    !.pc = "am_setex",
                    !.chatHistory = Append(GetChatHistory(key.val, HistoryLimit),
                                           MessageData(t.message, now))])
    /\ UNCHANGED <<session, chat_history, issued, now, faults>>

am_get(i) ==
    /\ tasks[i].pc = "am_get"
    /\ LET t == tasks[i]
           key == chat_history[t.sid]
       IN  IF ~key.present THEN Call(i, Throw(t, "Session not found"))
           ELSE Call(i, [t EXCEPT
                    !.pc = "am_setex",
                    !.chatHistory = Append(GetChatHistory(key.val, HistoryLimit),
                                           MessageData(t.message, now))])
    /\ UNCHANGED <<session, chat_history, issued, now, faults>>

\* (addMessage's write as an append to whatever is stored at the write)
am_appendToStored(i) ==
    /\ tasks[i].pc = "am_setex"
    /\ chat_history' = [chat_history EXCEPT ![tasks[i].sid] =
            Setex(Append(@.val, tasks[i].chatHistory[Len(tasks[i].chatHistory)]))]
    /\ Call(i, [tasks[i] EXCEPT !.pc = "usa_get", !.chatHistory = <<>>])
    /\ UNCHANGED <<session, issued, now, faults>>

am_setex(i) ==
    /\ tasks[i].pc = "am_setex"
    /\ chat_history' = [chat_history EXCEPT ![tasks[i].sid] = Setex(tasks[i].chatHistory)]
    /\ Call(i, [tasks[i] EXCEPT !.pc = "usa_get", !.chatHistory = <<>>])
    /\ UNCHANGED <<session, issued, now, faults>>

\* ------------------------------------------------------------------ updateSessionActivity
\* (an activity update that stamps the record as created now)
usa_getStampsCreation(i) ==
    /\ tasks[i].pc = "usa_get"
    /\ LET t == tasks[i]
           key == session[t.sid]
       IN  IF ~key.present THEN Call(i, Return(t))
           ELSE Call(i, [t EXCEPT
                    !.pc = "usa_setex",
                    !.sessionData = [key.val EXCEPT
                         !.createdAt = now,
                         !.lastActivity = now,
                         !.messageCount = key.val.messageCount + 1]])
    /\ UNCHANGED <<session, chat_history, issued, now, faults>>

usa_get(i) ==
    /\ tasks[i].pc = "usa_get"
    /\ LET t == tasks[i]
           key == session[t.sid]
       IN  IF ~key.present THEN Call(i, Return(t))
           ELSE Call(i, [t EXCEPT
                    !.pc = "usa_setex",
                    !.sessionData = [key.val EXCEPT
                         !.lastActivity = now,
                         !.messageCount = key.val.messageCount + 1]])
    /\ UNCHANGED <<session, chat_history, issued, now, faults>>

usa_setex(i) ==
    /\ tasks[i].pc = "usa_setex"
    /\ session' = [session EXCEPT ![tasks[i].sid] = Setex(tasks[i].sessionData)]
    /\ Call(i, [tasks[i] EXCEPT !.pc = "usa_expire", !.sessionData = NoSessionData])
    /\ UNCHANGED <<chat_history, issued, now, faults>>

usa_expire(i) ==
    /\ tasks[i].pc = "usa_expire"
    /\ chat_history' = [chat_history EXCEPT ![tasks[i].sid] = Expire(@)]
    /\ Call(i, Return(tasks[i]))
    /\ UNCHANGED <<session, issued, now, faults>>

\* ------------------------------------------------------------------ clearChatHistory
cch_setex(i) ==
    /\ tasks[i].pc = "cch_setex"
    /\ chat_history' = [chat_history EXCEPT ![tasks[i].sid] = Setex(<<>>)]
    /\ Call(i, Return(tasks[i]))
    /\ UNCHANGED <<session, issued, now, faults>>

\* ------------------------------------------------------------------ getSession, sessionExists, getChatHistory
\* getSession(sessionId): the parsed record, or null (here: the empty record)
GetSession(key) == IF key.present THEN key.val ELSE NoSessionData

\* redis.exists(key) === 1
se_exists(i) ==
    /\ tasks[i].pc = "se_exists"
    /\ Call(i, Return([tasks[i] EXCEPT !.ret = RetBool(session[tasks[i].sid].present)]))
    /\ UNCHANGED storeVars

\* the command fails: sessionExists catches, logs and returns false
se_exists_failed(i) ==
    /\ tasks[i].pc = "se_exists"
    /\ faults < MaxStoreFaults
    /\ faults' = faults + 1
    /\ Call(i, Return([tasks[i] EXCEPT !.ret = RetBool(FALSE), !.storeFailed = TRUE]))
    /\ UNCHANGED <<session, chat_history, issued, now>>

\* getChatHistory(sessionId, limit): null for an absent key
gch_get(i) ==
    /\ tasks[i].pc = "gch_get"
    /\ LET t == tasks[i]
           key == chat_history[t.sid]
       IN  Call(i, Return([t EXCEPT !.ret = IF key.present
                                             THEN RetList(GetChatHistory(key.val, t.limit))
                                             ELSE RetNull]))
    /\ UNCHANGED storeVars

\* ------------------------------------------------------------------ deleteSession
\* pipeline.del(metadata key); pipeline.del(history key); await pipeline.exec():
\* the two commands go out in one batch and the server runs them one after
\* the other, as commands of no transaction: commands that arrive on another
\* connection can be run between them.
ds_del_meta(i) ==
    /\ tasks[i].pc = "ds_del_meta"
    /\ session' = [session EXCEPT ![tasks[i].sid] = NoKey]
    /\ Call(i, [tasks[i] EXCEPT !.pc = "ds_del_hist"])
    /\ UNCHANGED <<chat_history, issued, now, faults>>

ds_del_hist(i) ==
    /\ tasks[i].pc = "ds_del_hist"
    /\ chat_history' = [chat_history EXCEPT ![tasks[i].sid] = NoHistKey]
    /\ Call(i, Return(tasks[i]))
    /\ UNCHANGED <<session, issued, now, faults>>

\* ------------------------------------------------------------------ updateSessionTitle
ust_get(i) ==
    /\ tasks[i].pc = "ust_get"
    /\ LET t == tasks[i]
           key == session[t.sid]
           safe == SafeTitle(t.title)
       IN  IF ~key.present THEN Call(i, Throw(t, "Session not found"))
           ELSE IF safe.throws THEN Call(i, Throw(t, "TypeError"))
           ELSE Call(i, [t EXCEPT
                    !.pc = "ust_setex",
                    !.sessionData = [key.val EXCEPT
                         !.title = Str(safe.val), !.lastActivity = now]])
    /\ UNCHANGED <<session, chat_history, issued, now, faults>>

ust_setex(i) ==
    /\ tasks[i].pc = "ust_setex"
    /\ session' = [session EXCEPT ![tasks[i].sid] = Setex(tasks[i].sessionData)]
    /\ Call(i, Return([tasks[i] EXCEPT !.sessionData = NoSessionData]))
    /\ UNCHANGED <<chat_history, issued, now, faults>>

\* ------------------------------------------------------------------ getAllSessions
\* sessions.sort((a, b) => new Date(b.lastActivity) - new Date(a.lastActivity)):
\* most recent first, equal elements keep their order.
RECURSIVE InsertByActivity(_, _)
InsertByActivity(sorted, s) ==
    IF sorted = <<>> THEN <<s>>
    ELSE IF Head(sorted).lastActivity >= s.lastActivity
         THEN <<Head(sorted)>> \o InsertByActivity(Tail(sorted), s)
         ELSE <<s>> \o sorted

RECURSIVE SortByActivity(_)
SortByActivity(list) ==
    IF list = <<>> THEN <<>>
    ELSE InsertByActivity(SortByActivity(SubSeq(list, 1, Len(list) - 1)),
                          list[Len(list)])

\* (the blank-title test without its trim)
TitleCheckUntrimmed(title) ==
    IF ~Truthy(title) THEN "blank"
    ELSE IF title.k # "string" THEN "throw"
    ELSE "ok"

\* !session.title || session.title === null || session.title.trim() === ""
TitleCheck(title) ==
    IF ~Truthy(title) THEN "blank"
    ELSE IF title.k # "string" THEN "throw"
    ELSE IF Trim(title.s) = <<>> THEN "blank"
    ELSE "ok"

Orders(S) == {o \in [1..Cardinality(S) -> S] : \A a, b \in DOMAIN o : a # b => o[a] # o[b]}

\* The loop of getAllSessions moves to its next key, or ends with the sort.
gas_next(t) ==
    IF Len(t.keys) > 1 THEN [t EXCEPT !.pc = "gas_get", !.keys = Tail(t.keys)]
    ELSE Return([t EXCEPT !.keys = <<>>, !.sessions = SortByActivity(t.sessions)])

\* redis.keys("session:*"): the keys come in no particular order.
gas_keys(i) ==
    /\ tasks[i].pc = "gas_keys"
    /\ \E keys \in Orders({id \in SessionIds : session[id].present}) :
         IF keys = <<>> THEN Call(i, Return(tasks[i]))
         ELSE Call(i, [tasks[i] EXCEPT !.pc = "gas_get", !.keys = keys])
    /\ UNCHANGED <<session, chat_history, issued, now, faults>>

gas_get(i) ==
    /\ tasks[i].pc = "gas_get"
    /\ LET t == tasks[i]
           key == session[Head(t.keys)]
           check == TitleCheck(key.val.title)
       IN  IF ~key.present THEN Call(i, gas_next(t))
           ELSE IF check = "throw" THEN Call(i, Throw(t, "TypeError"))
           ELSE IF check = "blank"
                THEN Call(i, [t EXCEPT !.pc = "gas_fix",
                                !.sessionData = [key.val EXCEPT !.title = Str(NewChat)]])
                ELSE Call(i, [t EXCEPT !.pc = "gas_hist", !.sessionData = key.val])
    /\ UNCHANGED <<session, chat_history, issued, now, faults>>

\* the repaired record goes back under the id it carries
gas_fix(i) ==
    /\ tasks[i].pc = "gas_fix"
    /\ tasks[i].sessionData.id \in SessionIds
    /\ session' = [session EXCEPT ![tasks[i].sessionData.id] = Setex(tasks[i].sessionData)]
    /\ Call(i, [tasks[i] EXCEPT !.pc = "gas_hist"])
    /\ UNCHANGED <<chat_history, issued, now, faults>>

gas_hist(i) ==
    /\ tasks[i].pc = "gas_hist"
    /\ LET t == tasks[i]
           id == t.sessionData.id
           key == IF id \in SessionIds THEN chat_history[id] ELSE NoHistKey
           last == IF key.present THEN GetChatHistory(key.val, 1) ELSE <<>>
           s == [id |-> id, title |-> t.sessionData.title,
                 createdAt |-> t.sessionData.createdAt,
                 lastActivity |-> t.sessionData.lastActivity,
                 messageCount |-> t.sessionData.messageCount,
                 isActive |-> t.sessionData.isActive,
                 hasLastMessage |-> last # <<>>,
                 lastMessage |-> IF last # <<>> THEN last[Len(last)] ELSE NoTurn]
       IN  Call(i, gas_next([t EXCEPT !.sessions = Append(t.sessions, s),
                                      !.sessionData = NoSessionData]))
    /\ UNCHANGED <<session, chat_history, issued, now, faults>>

\* what the generation model may answer: whole texts, and stream fragments
Chunks == {<<>>, <<"x">>, <<"y">>}
GeneratedTexts == {<<>>, <<"x">>, <<"x", "y">>}

\* ------------------------------------------------------------------ RAG pipelines
\* embeddings.embedText(query): throws on a blank text, on a value that is no
\* string, and on any failure of the embedding API.
pq_embed(i) ==
    /\ tasks[i].pc = "pq_embed"
    /\ LET t == tasks[i]
           valid == t.query.k = "string" /\ ~IsBlank(t.query.s)
       IN  \E ok \in BOOLEAN :
               IF ok /\ valid THEN Call(i, [t EXCEPT !.pc = "pq_search"])
               ELSE Call(i, PipelineCatch(t, "embeddingFailed"))
    /\ UNCHANGED storeVars

\* (a search whose empty result goes on to the generation call)
pq_searchAlwaysGenerates(i) ==
    /\ tasks[i].pc = "pq_search"
    /\ LET t == tasks[i]
       IN  \/ Call(i, PipelineCatch(t, "searchFailed"))
           \/ \E n \in 0..MaxArticles :
                 Call(i, [t EXCEPT !.pc = "pq_generate",
                                   !.relevantArticles = [k \in 1..n |-> Article(k)]])
    /\ UNCHANGED storeVars

\* vectorStore.searchSimilar(queryEmbedding, 5, 0.6)
pq_search(i) ==
    /\ tasks[i].pc = "pq_search"
    /\ LET t == tasks[i]
       IN  \/ Call(i, PipelineCatch(t, "searchFailed"))
           \/ \E n \in 0..MaxArticles :
                 LET relevantArticles == [k \in 1..n |-> Article(k)]
                 IN  IF Len(relevantArticles) = 0 THEN Call(i, PipelineNoArticles(t))
                     ELSE Call(i, [t EXCEPT !.pc = "pq_generate",
                                            !.relevantArticles = relevantArticles])
    /\ UNCHANGED storeVars

\* model.generateContent(prompt) / model.generateContentStream(prompt)
pq_generate(i) ==
    /\ tasks[i].pc = "pq_generate"
    /\ LET t == tasks[i]
       IN  \/ Call(i, GenerationCatch(t))
           \/ /\ Streaming(t.variant)
              /\ Call(i, [t EXCEPT !.pc = "pq_stream"])
           \/ /\ ~Streaming(t.variant)
              /\ \E text \in GeneratedTexts :
                    Call(i, GenerationDone([t EXCEPT !.fullResponse = text]))
    /\ UNCHANGED storeVars

\* (a loop that forwards only the fragments that are not empty)
StreamChunkSkipEmpty(t, chunkText) ==
    IF chunkText = <<>>
    THEN [t EXCEPT !.fullResponse = @ \o chunkText, !.yielded = Append(@, chunkText)]
    ELSE SocketEmit([t EXCEPT !.fullResponse = @ \o chunkText,
                              !.yielded = Append(@, chunkText)],
                    "stream-chunk", chunkText, <<>>, FALSE)

\* one turn of: for await (const chunk of result.stream)
StreamChunk(t, chunkText) ==
    SocketEmit([t EXCEPT !.fullResponse = @ \o chunkText,
                         !.yielded = Append(@, chunkText)],
               "stream-chunk", chunkText, <<>>, FALSE)

pq_stream(i) ==
    /\ tasks[i].pc = "pq_stream"
    /\ LET t == tasks[i]
       IN  \/ Call(i, GenerationCatch(t))
           \/ Call(i, GenerationDone(t))
           \/ /\ Len(t.yielded) < MaxChunks
              /\ \E chunkText \in Chunks : Call(i, StreamChunk(t, chunkText))
    /\ UNCHANGED storeVars

\* ------------------------------------------------------------------ request handlers
\* sessionManager.sessionExists(currentSessionId): redis.exists(...) === 1;
\* an absent session is replaced by a new one
h_exists(i) ==
    /\ tasks[i].pc = "h_exists"
    /\ LET t == tasks[i]
       IN  IF session[t.sid].present THEN Call(i, [t EXCEPT !.pc = "h_getHist"])
           ELSE Call(i, CallProc([t EXCEPT !.title = Undefined], "cs_begin", "h_created"))
    /\ UNCHANGED storeVars

\* the command fails: sessionExists catches, logs and returns false
h_exists_failed(i) ==
    /\ tasks[i].pc = "h_exists"
    /\ faults < MaxStoreFaults
    /\ faults' = faults + 1
    /\ Call(i, CallProc([tasks[i] EXCEPT !.title = Undefined, !.storeFailed = TRUE],
                        "cs_begin", "h_created"))
    /\ UNCHANGED <<session, chat_history, issued, now>>

\* const chatHistory = await sessionManager.getChatHistory(currentSessionId),
\* then the user's turn goes to addMessage
h_getHist(i) ==
    /\ tasks[i].pc = "h_getHist"
    /\ LET t == tasks[i]
           key == chat_history[t.sid]
       IN  Call(i, CallProc(
             [t EXCEPT !.ctxHistory =
                          IF key.present
                          THEN [kind |-> "array",
                                val |-> GetChatHistory(key.val, HistoryLimit)]
                          ELSE NoContext,
                       !.historyAtStart = key.val,
                       !.message = UserTurn(t.reqMessage)],
             "am_get", "h_userAdded"))
    /\ UNCHANGED storeVars

\* send-message on a session that was not just created: getSession
sm_getSession(i) ==
    /\ tasks[i].pc = "sm_getSession"
    /\ LET t == tasks[i]
           key == session[t.sid]
       IN  Call(i, [t EXCEPT !.pc = "sm_getHist2",
                             !.sessionData = IF key.present THEN key.val
                                             ELSE NoSessionData])
    /\ UNCHANGED storeVars

\* ... and getChatHistory: a session still called "New Chat" whose history is
\* the one user turn gets its title from the message
sm_getHist2(i) ==
    /\ tasks[i].pc = "sm_getHist2"
    /\ LET t == tasks[i]
           key == chat_history[t.sid]
           needsTitle ==
               /\ t.sessionData # NoSessionData
               /\ t.sessionData.title = Str(NewChat)
               /\ key.present
               /\ Len(GetChatHistory(key.val, HistoryLimit)) = 1
       IN  IF needsTitle
           THEN Call(i, CallProc([t EXCEPT !.sessionData = NoSessionData,
                                           !.firstMessage = Str(Trim(t.reqMessage.s))],
                                 "agt_begin", "h_titled"))
           ELSE Call(i, [t EXCEPT !.pc = "h_query", !.sessionData = NoSessionData])
    /\ UNCHANGED storeVars

\* ------------------------------------------------------------------ failures and time
StoreLabels == {"cs_setex_meta", "cs_setex_hist", "am_get", "am_setex", "usa_get",
                "usa_setex", "usa_expire", "cch_setex", "ust_get", "ust_setex",
                "gas_keys", "gas_get", "gas_fix", "gas_hist",
                "h_getHist", "sm_getSession", "sm_getHist2", "gch_get", "ds_del_meta"}

\* A Redis command fails (connection lost, retries exhausted): the awaiting
\* method throws at that await and nothing is written by the command.
StoreFault(i) ==
    /\ tasks[i].pc \in StoreLabels
    /\ faults < MaxStoreFaults
    /\ faults' = faults + 1
    /\ Call(i, Throw([tasks[i] EXCEPT !.storeFailed = TRUE, !.chatHistory = <<>>,
                                      !.safeTitle = <<>>,
                                      !.sessionData = NoSessionData, !.keys = <<>>,
                                      !.sessions = <<>>], "StoreError"))
    /\ UNCHANGED <<session, chat_history, issued, now>>

\* Time passes between two calls, half a retention window at a time: every key
\* loses that much of its time to live, and a key whose time is up is gone.
TickSteps == {sessionTTL \div 2}

Elapse(entry, dt, gone) ==
    IF ~entry.present THEN entry
    ELSE IF entry.ttl <= dt THEN gone
    ELSE [entry EXCEPT !.ttl = @ - dt]

Tick(dt) ==
    /\ \A j \in TaskIds : ~Running(tasks[j])
    /\ now + dt <= MaxClock
    /\ now' = now + dt
    /\ session' = [id \in SessionIds |-> Elapse(session[id], dt, NoKey)]
    /\ chat_history' = [id \in SessionIds |-> Elapse(chat_history[id], dt, NoHistKey)]
    /\ UNCHANGED <<issued, faults, tasks>>

\* ------------------------------------------------------------------ calls of the session manager
TitleInputs ==
    {Undefined, Null, Number5, Str(<<>>), Str(<<" ">>), Str(<<" ", "a", " ">>),
     Str(Rep("a", TitleMax + 1))}

Messages ==
    {[type |-> "user", content |-> <<"a">>, hasSources |-> FALSE, sources |-> <<>>]}

Quiet == \A j \in TaskIds : ~Running(tasks[j])

createSession(i, title) ==
    /\ Quiet /\ i = 1
    /\ issued # SessionIds
    /\ Call(i, [IdleTask EXCEPT !.op = "createSession", !.pc = "cs_begin",
                                !.title = title])
    /\ UNCHANGED storeVars

updateSessionTitle(i, sessionId, newTitle) ==
    /\ Quiet /\ i = 1
    /\ Call(i, [IdleTask EXCEPT !.op = "updateSessionTitle", !.pc = "ust_get",
                                !.sid = sessionId, !.title = newTitle])
    /\ UNCHANGED storeVars

autoGenerateTitle(i, sessionId, firstMessage) ==
    /\ Quiet /\ i = 1
    /\ Call(i, [IdleTask EXCEPT !.op = "autoGenerateTitle", !.pc = "agt_begin",
                                !.sid = sessionId, !.firstMessage = firstMessage])
    /\ UNCHANGED storeVars

addMessage(i, sessionId, message) ==
    /\ Quiet /\ i = 1
    /\ Len(chat_history[sessionId].val) < MaxHistory
    /\ session[sessionId].val.messageCount < MaxCount
    /\ Call(i, [IdleTask EXCEPT !.op = "addMessage", !.pc = "am_get",
                                !.sid = sessionId, !.message = message])
    /\ UNCHANGED storeVars

clearChatHistory(i, sessionId) ==
    /\ Quiet /\ i = 1
    /\ Call(i, [IdleTask EXCEPT !.op = "clearChatHistory", !.pc = "cch_setex",
                                !.sid = sessionId])
    /\ UNCHANGED storeVars

getAllSessions(i) ==
    /\ Quiet /\ i = 1
    /\ Call(i, [IdleTask EXCEPT !.op = "getAllSessions", !.pc = "gas_keys"])
    /\ UNCHANGED storeVars

sessionExists(i, sessionId) ==
    /\ Quiet /\ i = 1
    /\ Call(i, [IdleTask EXCEPT !.op = "sessionExists", !.pc = "se_exists",
                                !.sid = sessionId])
    /\ UNCHANGED storeVars

getChatHistory(i, sessionId, limit) ==
    /\ Quiet /\ i = 1
    /\ Call(i, [IdleTask EXCEPT !.op = "getChatHistory", !.pc = "gch_get",
                                !.sid = sessionId, !.limit = limit])
    /\ UNCHANGED storeVars

deleteSession(i, sessionId) ==
    /\ Quiet /\ i = 1
    /\ Call(i, [IdleTask EXCEPT !.op = "deleteSession", !.pc = "ds_del_meta",
                                !.sid = sessionId])
    /\ UNCHANGED storeVars

\* ------------------------------------------------------------------ calls of a pipeline
QueryInputs == {Undefined, Number5, Str(<<" ">>), Str(<<"a">>)}
Contexts ==
    {NoContext, [kind |-> "number", val |-> <<>>], [kind |-> "array", val |-> <<>>],
     [kind |-> "array",
      val |-> <<[type |-> "user", content |-> <<"a">>, hasSources |-> FALSE,
                 sources |-> <<>>, timestamp |-> 0]>>]}
Variants == {"processQuery", "processQueryWithContext", "processQueryStream",
             "processQueryWithContextStream"}

processQuery(i, variant, query, chatHistory, sessionId, socket) ==
    /\ Quiet /\ i = 1
    /\ Contextual(variant) \/ chatHistory = NoContext
    /\ Streaming(variant) \/ ~socket
    /\ Call(i, [IdleTask EXCEPT !.op = variant, !.pc = "pq_begin",
                                !.variant = variant, !.query = query,
                                !.ctxHistory = chatHistory, !.sid = sessionId,
                                !.socket = socket])
    /\ UNCHANGED storeVars

\* ------------------------------------------------------------------ requests
MessageInputs == {Undefined, Number5, Str(<<" ">>), Str(<<" ", "a", " ">>)}

\* (whether a request names a session that exists when it arrives)
Existing(sessionId) == sessionId # NoId /\ session[sessionId].present

\* A chat request arrives over the socket ("send-message") ...
sendMessage(i, message, sessionId) ==
    /\ Quiet /\ i = 1
    /\ sessionId # NoId =>
          /\ Len(chat_history[sessionId].val) + 2 <= MaxChatHistory
          /\ session[sessionId].val.messageCount + 2 <= MaxChatHistory
    /\ Call(i, [IdleTask EXCEPT !.op = "sendMessage", !.pc = "h_begin",
                                !.reqMessage = message, !.reqSid = sessionId,
                                !.existedAtStart = Existing(sessionId)])
    /\ UNCHANGED storeVars

\* ... or over REST (POST /).
postChat(i, message, sessionId) ==
    /\ Quiet /\ i = 1
    /\ sessionId # NoId =>
          /\ Len(chat_history[sessionId].val) + 2 <= MaxChatHistory
          /\ session[sessionId].val.messageCount + 2 <= MaxChatHistory
    /\ Call(i, [IdleTask EXCEPT !.op = "postChat", !.pc = "h_begin",
                                !.reqMessage = message, !.reqSid = sessionId,
                                !.existedAtStart = Existing(sessionId)])
    /\ UNCHANGED storeVars

\* ------------------------------------------------------------------ specifications
Init ==
    /\ session = [id \in SessionIds |-> NoKey]
    /\ chat_history = [id \in SessionIds |-> NoHistKey]
    /\ issued = {}
    /\ now = 0
    /\ faults = 0
    /\ tasks = [i \in TaskIds |-> IdleTask]

StoreStep(i) ==
    \/ cs_setex_meta(i) \/ cs_setex_hist(i)
    \/ am_get(i) \/ am_setex(i)
    \/ usa_get(i) \/ usa_setex(i) \/ usa_expire(i)
    \/ cch_setex(i)
    \/ ust_get(i) \/ ust_setex(i)
    \/ gas_keys(i) \/ gas_get(i) \/ gas_hist(i)

ApiCall(i) ==
    \/ \E title \in TitleInputs : createSession(i, title)
    \/ \E id \in SessionIds, title \in TitleInputs : updateSessionTitle(i, id, title)
    \/ \E id \in SessionIds, m \in TitleInputs : autoGenerateTitle(i, id, m)
    \/ \E id \in SessionIds, m \in Messages : addMessage(i, id, m)
    \/ \E id \in SessionIds : clearChatHistory(i, id)
    \/ getAllSessions(i)

\* The four pipeline entry points called directly (they share no state).
NextPipe ==
    \E i \in TaskIds :
        \/ \E variant \in Variants, query \in QueryInputs, chatHistory \in Contexts,
              sessionId \in SessionIds \cup {NoId}, socket \in BOOLEAN :
                processQuery(i, variant, query, chatHistory, sessionId, socket)
        \/ pq_embed(i) \/ pq_search(i) \/ pq_generate(i) \/ pq_stream(i)

SpecPipe == Init /\ [][NextPipe]_vars

\* Chat requests over the socket and over REST, one at a time, with sessions
\* also created empty beforehand, upstream failures and store failures.
NextChat ==
    \E i \in TaskIds :
        \/ \E m \in MessageInputs, id \in SessionIds \cup {NoId} : sendMessage(i, m, id)
        \/ \E m \in MessageInputs, id \in SessionIds \cup {NoId} : postChat(i, m, id)
        \/ createSession(i, Undefined)
        \/ h_exists(i) \/ h_exists_failed(i) \/ h_getHist(i) \/ sm_getSession(i) \/ sm_getHist2(i)
        \/ cs_setex_meta(i) \/ cs_setex_hist(i)
        \/ am_get(i) \/ am_setex(i)
        \/ usa_get(i) \/ usa_setex(i) \/ usa_expire(i)
        \/ ust_get(i) \/ ust_setex(i)
        \/ pq_embed(i) \/ pq_search(i) \/ pq_generate(i) \/ pq_stream(i)
        \/ StoreFault(i)

SpecChat == Init /\ [][NextChat]_vars

\* The same requests where every awaited call returns or fails in the end: a
\* request that has started keeps taking steps. (A request is admitted only
\* while an unused session id is left for the session it may have to create,
\* and while no turn is stored yet: it meets no session, or an empty one.)
FreshStore == issued # SessionIds /\ \A id \in SessionIds : chat_history[id].val = <<>>

ChatStep(i) ==
    \/ h_exists(i) \/ h_exists_failed(i) \/ h_getHist(i) \/ sm_getSession(i) \/ sm_getHist2(i)
    \/ cs_setex_meta(i) \/ cs_setex_hist(i)
    \/ am_get(i) \/ am_setex(i)
    \/ usa_get(i) \/ usa_setex(i) \/ usa_expire(i)
    \/ ust_get(i) \/ ust_setex(i)
    \/ pq_embed(i) \/ pq_search(i) \/ pq_generate(i) \/ pq_stream(i)
    \/ StoreFault(i)

NextChatFair ==
    \E i \in TaskIds :
        \/ \E m \in MessageInputs, id \in SessionIds \cup {NoId} :
              FreshStore /\ sendMessage(i, m, id)
        \/ \E m \in MessageInputs, id \in SessionIds \cup {NoId} :
              FreshStore /\ postChat(i, m, id)
        \/ issued = {} /\ createSession(i, Undefined)
        \/ ChatStep(i)

SpecChatFair ==
    Init /\ [][NextChatFair]_vars /\ WF_vars(\E i \in TaskIds : ChatStep(i))

\* Calls that overlap: the REST router and the socket handler each hold a
\* SessionManager of their own with a Redis connection of its own, and every
\* method gives way at each await, so a second call starts and runs its
\* commands while a first one is between two of its own.
OverlapMessages ==
    {[type |-> "user", content |-> <<c>>, hasSources |-> FALSE, sources |-> <<>>] :
        c \in {"a", "b"}}

addMessageOverlapping(i, sessionId, message) ==
    /\ ~Running(tasks[i])
    /\ Len(chat_history[sessionId].val) < MaxOverlapHistory
    /\ Call(i, [IdleTask EXCEPT !.op = "addMessage", !.pc = "am_get",
                                !.sid = sessionId, !.message = message])
    /\ UNCHANGED storeVars

\* (DELETE /sessions/:id deletes only a session found by sessionExists; the
\* socket's delete-session deletes whatever id it is given, which is left out
\* here so that deleted histories cannot be re-created without bound)
deleteSessionOverlapping(i, sessionId) ==
    /\ ~Running(tasks[i])
    /\ session[sessionId].present
    /\ Call(i, [IdleTask EXCEPT !.op = "deleteSession", !.pc = "ds_del_meta",
                                !.sid = sessionId])
    /\ UNCHANGED storeVars

sessionExistsOverlapping(i, sessionId) ==
    /\ ~Running(tasks[i])
    /\ Call(i, [IdleTask EXCEPT !.op = "sessionExists", !.pc = "se_exists",
                                !.sid = sessionId])
    /\ UNCHANGED storeVars

getChatHistoryOverlapping(i, sessionId, limit) ==
    /\ ~Running(tasks[i])
    /\ Call(i, [IdleTask EXCEPT !.op = "getChatHistory", !.pc = "gch_get",
                                !.sid = sessionId, !.limit = limit])
    /\ UNCHANGED storeVars

NextRace ==
    \E i \in TaskIds :
        \/ issued = {} /\ createSession(i, Undefined)
        \/ \E id \in issued, m \in OverlapMessages : addMessageOverlapping(i, id, m)
        \/ \E id \in issued : deleteSessionOverlapping(i, id)
        \/ \E id \in issued : sessionExistsOverlapping(i, id)
        \/ \E id \in issued, limit \in {HistoryLimit} :
              getChatHistoryOverlapping(i, id, limit)
        \/ cs_setex_meta(i) \/ cs_setex_hist(i)
        \/ am_get(i) \/ am_setex(i)
        \/ usa_get(i) \/ usa_setex(i) \/ usa_expire(i)
        \/ se_exists(i) \/ gch_get(i)
        \/ ds_del_meta(i) \/ ds_del_hist(i)

SpecRace == Init /\ [][NextRace]_vars

\* The session manager called by one caller at a time, with any arguments.
Next == \E i \in TaskIds : ApiCall(i) \/ StoreStep(i) \/ StoreFault(i)

Spec == Init /\ [][Next]_vars

\* The same calls on one long conversation: turns are added one call at a
\* time, user and assistant turns alternating as the chat handlers add them.
NextTurn(h) ==
    [type |-> IF Len(h) % 2 = 0 THEN "user" ELSE "assistant",
     content |-> <<"a">>, hasSources |-> FALSE, sources |-> <<>>]

addMessageLong(i, sessionId) ==
    /\ chat_history[sessionId].present
    /\ Len(chat_history[sessionId].val) < LongHistory
    /\ session[sessionId].val.messageCount < LongHistory
    /\ Quiet /\ i = 1
    /\ Call(i, [IdleTask EXCEPT !.op = "addMessage", !.pc = "am_get",
                                !.sid = sessionId,
                                !.message = NextTurn(chat_history[sessionId].val)])
    /\ UNCHANGED storeVars

\* ... and chat requests sent on it once it is about HistoryLimit turns long
sendMessageLong(i, sessionId) ==
    /\ Quiet /\ i = 1
    /\ chat_history[sessionId].present
    /\ Len(chat_history[sessionId].val) >= HistoryLimit - 1
    /\ session[sessionId].val.messageCount < LongHistory
    /\ Call(i, [IdleTask EXCEPT !.op = "sendMessage", !.pc = "h_begin",
                                !.reqMessage = Str(<<"a">>), !.reqSid = sessionId,
                                !.existedAtStart = Existing(sessionId)])
    /\ UNCHANGED storeVars

NextLong ==
    \E i \in TaskIds :
        \/ issued = {} /\ createSession(i, Undefined)
        \/ \E id \in SessionIds : addMessageLong(i, id)
        \/ \E id \in SessionIds : sendMessageLong(i, id)
        \/ cs_setex_meta(i) \/ cs_setex_hist(i)
        \/ am_get(i) \/ am_setex(i)
        \/ usa_get(i) \/ usa_setex(i) \/ usa_expire(i)
        \/ h_exists(i) \/ h_getHist(i) \/ sm_getSession(i) \/ sm_getHist2(i)
        \/ pq_embed(i) \/ pq_search(i) \/ pq_generate(i) \/ pq_stream(i)

SpecLong == Init /\ [][NextLong]_vars

\* The session manager called by one caller at a time on the one session it
\* has created, also after its deletion, while time passes and keys expire
\* (a deletion is made by either task, so that the record of a finished
\* deleteSession stays while later calls are made).
TitleArgs == {Str(<<" ">>), Str(<<" ", "a", " ">>), Str(Rep("a", TitleMax)),
              Str(Rep("a", TitleMax + 1))}

\* GET /sessions/:id/history?limit=n: parseInt(limit), 50 when left out
Limits == {0, 1, HistoryLimit}

NextOps ==
    \/ \E dt \in TickSteps : Tick(dt)
    \/ \E i \in TaskIds :
        \/ issued = {} /\ createSession(i, Undefined)
        \/ \E id \in issued, title \in TitleArgs : updateSessionTitle(i, id, title)
        \/ \E id \in issued, m \in TitleArgs : autoGenerateTitle(i, id, m)
        \/ \E id \in issued, m \in Messages : addMessage(i, id, m)
        \/ \E id \in issued : clearChatHistory(i, id)
        \/ \E id \in issued : deleteSession(i, id)
        \/ \E id \in issued : Quiet /\ deleteSessionOverlapping(i, id)
        \/ \E id \in issued : sessionExists(i, id)
        \/ \E id \in issued, limit \in Limits : getChatHistory(i, id, limit)
        \/ cs_setex_meta(i) \/ cs_setex_hist(i)
        \/ am_get(i) \/ am_setex(i)
        \/ usa_get(i) \/ usa_setex(i) \/ usa_expire(i)
        \/ cch_setex(i)
        \/ ust_get(i) \/ ust_setex(i)
        \/ se_exists(i) \/ se_exists_failed(i) \/ gch_get(i)
        \/ ds_del_meta(i) \/ ds_del_hist(i)
        \/ StoreFault(i)

SpecOps == Init /\ [][NextOps]_vars

\* Records written by the repository's earlier session manager, which stored
\* the title it was given as it was (title: title), read by the present one:
\* the store outlives the code that filled it.
LegacyTitles == {Null, Str(<<>>), Str(<<" ">>), Str(<<" ", "a", " ">>), Undefined}

createSessionLegacy(i, title) ==
    /\ Quiet /\ i = 1
    /\ issued # SessionIds
    /\ Call(i, [IdleTask EXCEPT !.op = "createSessionLegacy", !.pc = "csl_setex_meta",
                                !.title = DefaultTitle(title)])
    /\ UNCHANGED storeVars

csl_setex_meta(i) ==
    /\ tasks[i].pc = "csl_setex_meta"
    /\ \E sessionId \in SessionIds \ issued :
         /\ issued' = issued \cup {sessionId}
         /\ session' = [session EXCEPT ![sessionId] =
                Setex([id |-> sessionId, title |-> tasks[i].title,
                       createdAt |-> now, lastActivity |-> now,
                       messageCount |-> 0, isActive |-> TRUE])]
         /\ Call(i, [tasks[i] EXCEPT !.sid = sessionId, !.pc = "cs_setex_hist"])
    /\ UNCHANGED <<chat_history, now, faults>>

NextLegacy ==
    \/ \E dt \in TickSteps : Tick(dt)
    \/ \E i \in TaskIds :
        \/ \E title \in LegacyTitles : createSessionLegacy(i, title)
        \/ \E id \in issued, m \in Messages : addMessage(i, id, m)
        \/ \E id \in issued : updateSessionTitle(i, id, Str(<<"b">>))
        \/ \E id \in issued : autoGenerateTitle(i, id, Str(<<"c">>))
        \/ getAllSessions(i)
        \/ csl_setex_meta(i) \/ cs_setex_hist(i)
        \/ am_get(i) \/ am_setex(i)
        \/ usa_get(i) \/ usa_setex(i) \/ usa_expire(i)
        \/ ust_get(i) \/ ust_setex(i)
        \/ gas_keys(i) \/ gas_get(i) \/ gas_fix(i) \/ gas_hist(i)

SpecLegacy == Init /\ [][NextLegacy]_vars

\* ------------------------------------------------------------------ session routes
\* The REST routes and socket events that rename, clear, delete and create a
\* session, one request at a time, with turns added in between.
RouteTitles == {Undefined, Str(<<>>), Str(<<" ">>), Str(<<" ", "a", " ">>)}
QueryFlags == {Undefined, TrueString, FalseString}

\* PUT /sessions/:sessionId with body { title }
putSession(i, sessionId, title) ==
    /\ Quiet /\ i = 1
    /\ Call(i, [IdleTask EXCEPT !.op = "putSession", !.pc = "rt_put_begin",
                                !.reqSid = sessionId, !.reqTitle = title])
    /\ UNCHANGED storeVars

\* socket event "update-session-title" with data { sessionId, title }
onUpdateSessionTitle(i, sessionId, title) ==
    /\ Quiet /\ i = 1
    /\ Call(i, [IdleTask EXCEPT !.op = "onUpdateSessionTitle", !.pc = "rt_sut_begin",
                                !.reqSid = sessionId, !.reqTitle = title])
    /\ UNCHANGED storeVars

\* DELETE /sessions/:sessionId?clearHistory=..&deleteSession=..
deleteSessionRoute(i, sessionId, clearFlag, deleteFlag) ==
    /\ Quiet /\ i = 1
    /\ Call(i, [IdleTask EXCEPT !.op = "deleteSessionRoute", !.pc = "rt_del_begin",
                                !.existedAtStart = Existing(sessionId),
                                !.reqSid = sessionId, !.clearHistory = clearFlag,
                                !.deleteSession = deleteFlag])
    /\ UNCHANGED storeVars

\* POST /sessions with body { title }
postSessions(i, title) ==
    /\ Quiet /\ i = 1
    /\ issued # SessionIds
    /\ Call(i, [IdleTask EXCEPT !.op = "postSessions", !.pc = "rt_ps_begin",
                                !.reqTitle = title])
    /\ UNCHANGED storeVars

\* socket event "create-session" with data { title }
onCreateSession(i, title) ==
    /\ Quiet /\ i = 1
    /\ issued # SessionIds
    /\ Call(i, [IdleTask EXCEPT !.op = "onCreateSession", !.pc = "rt_ps_begin",
                                !.reqTitle = title])
    /\ UNCHANGED storeVars

NextRoutes ==
    \E i \in TaskIds :
        \/ \E dt \in TickSteps : now = 0 /\ Tick(dt)
        \/ \E id \in SessionIds, title \in RouteTitles : putSession(i, id, title)
        \/ \E id \in SessionIds \cup {NoId}, title \in RouteTitles :
              onUpdateSessionTitle(i, id, title)
        \/ \E id \in SessionIds, c \in QueryFlags, d \in QueryFlags :
              deleteSessionRoute(i, id, c, d)
        \/ \E title \in RouteTitles : postSessions(i, title)
        \/ \E title \in RouteTitles : onCreateSession(i, title)
        \/ \E id \in issued, m \in Messages :
              /\ Len(chat_history[id].val) < MaxOverlapHistory
              /\ session[id].val.messageCount < MaxOverlapHistory
              /\ addMessage(i, id, m)
        \/ cs_setex_meta(i) \/ cs_setex_hist(i)
        \/ se_exists(i) \/ se_exists_failed(i)
        \/ ust_get(i) \/ ust_setex(i)
        \/ ds_del_meta(i) \/ ds_del_hist(i)
        \/ cch_setex(i)
        \/ am_get(i) \/ am_setex(i)
        \/ usa_get(i) \/ usa_setex(i) \/ usa_expire(i)
        \/ StoreFault(i)

SpecRoutes == Init /\ [][NextRoutes]_vars

\* ------------------------------------------------------------------ retrieval
\* client.search(collection, { vector, limit, score_threshold }): of the points
\* that pass the threshold, the `limit` best ones, best first.
SearchSimilar(matches, limit) ==
    [k \in 1..(IF matches < limit THEN matches ELSE limit) |-> Article(k)]

\* (a search called without its limit: searchSimilar's default of 10 applies)
pq_searchDefaultLimit(i) ==
    /\ tasks[i].pc = "pq_search"
    /\ LET t == tasks[i]
       IN  \/ Call(i, PipelineCatch(t, "searchFailed"))
           \/ \E matches \in 0..MaxMatches :
                 LET relevantArticles == SearchSimilar(matches, SearchDefaultLimit)
                 IN  IF Len(relevantArticles) = 0 THEN Call(i, PipelineNoArticles(t))
                     ELSE Call(i, [t EXCEPT !.pc = "pq_generate",
                                            !.relevantArticles = relevantArticles])
    /\ UNCHANGED storeVars

\* vectorStore.searchSimilar(queryEmbedding, this.maxContextArticles,
\* this.minSimilarityScore) against a collection in which up to MaxMatches
\* points pass the threshold
pq_searchSimilar(i) ==
    /\ tasks[i].pc = "pq_search"
    /\ LET t == tasks[i]
       IN  \/ Call(i, PipelineCatch(t, "searchFailed"))
           \/ \E matches \in 0..MaxMatches :
                 LET relevantArticles == SearchSimilar(matches, maxContextArticles)
                 IN  IF Len(relevantArticles) = 0 THEN Call(i, PipelineNoArticles(t))
                     ELSE Call(i, [t EXCEPT !.pc = "pq_generate",
                                            !.relevantArticles = relevantArticles])
    /\ UNCHANGED storeVars

NextSources ==
    \E i \in TaskIds :
        \/ \E variant \in Variants, query \in QueryInputs, chatHistory \in Contexts,
              sessionId \in SessionIds \cup {NoId}, socket \in BOOLEAN :
                processQuery(i, variant, query, chatHistory, sessionId, socket)
        \/ pq_embed(i) \/ pq_searchSimilar(i) \/ pq_generate(i) \/ pq_stream(i)

SpecSources == Init /\ [][NextSources]_vars

\* ------------------------------------------------------------------ two pipeline calls
\* Two callers run the pipelines side by side (the pipelines keep no state of
\* their own between calls).
processQueryOverlapping(i, variant, query) ==
    /\ ~Running(tasks[i])
    /\ Call(i, [IdleTask EXCEPT !.op = variant, !.pc = "pq_begin",
                                !.variant = variant, !.query = query])
    /\ UNCHANGED storeVars

NextFallback ==
    \E i \in TaskIds :
        \/ \E variant \in Variants : processQueryOverlapping(i, variant, Str(<<"a">>))
        \/ pq_embed(i) \/ pq_search(i) \/ pq_generate(i) \/ pq_stream(i)

SpecFallback == Init /\ [][NextFallback]_vars

\* ------------------------------------------------------------------ one growing conversation
\* Turns that can be told apart are added to one session, and a chat request
\* arrives at any length of the history.
NumberedTurn(h) ==
    [type |-> IF Len(h) % 2 = 0 THEN "user" ELSE "assistant",
     content |-> <<ToString(Len(h) + 1)>>, hasSources |-> FALSE, sources |-> <<>>]

addMessageNumbered(i, sessionId) ==
    /\ Quiet /\ i = 1
    /\ chat_history[sessionId].present
    /\ Len(chat_history[sessionId].val) < MaxContextTurns
    /\ \A k \in DOMAIN chat_history[sessionId].val :
          chat_history[sessionId].val[k].content # <<"a">>
    /\ Call(i, [IdleTask EXCEPT !.op = "addMessage", !.pc = "am_get",
                                !.sid = sessionId,
                                !.message = NumberedTurn(chat_history[sessionId].val)])
    /\ UNCHANGED storeVars

sendMessageNumbered(i, op, sessionId) ==
    /\ Quiet /\ i = 1
    /\ chat_history[sessionId].present
    /\ \A k \in DOMAIN chat_history[sessionId].val :
          chat_history[sessionId].val[k].content # <<"a">>
    /\ Call(i, [IdleTask EXCEPT !.op = op, !.pc = "h_begin",
                                !.reqMessage = Str(<<"a">>), !.reqSid = sessionId,
                                !.existedAtStart = Existing(sessionId)])
    /\ UNCHANGED storeVars

NextContext ==
    \E i \in TaskIds :
        \/ issued = {} /\ createSession(i, Undefined)
        \/ \E id \in issued : addMessageNumbered(i, id)
        \/ \E id \in issued, op \in Handlers : sendMessageNumbered(i, op, id)
        \/ \E variant \in Variants :
              processQuery(i, variant, Str(<<"a">>), NoContext, NoId, FALSE)
        \/ cs_setex_meta(i) \/ cs_setex_hist(i)
        \/ am_get(i) \/ am_setex(i)
        \/ usa_get(i) \/ usa_setex(i) \/ usa_expire(i)
        \/ h_exists(i) \/ h_getHist(i) \/ sm_getSession(i) \/ sm_getHist2(i)
        \/ ust_get(i) \/ ust_setex(i)
        \/ pq_embed(i) \/ pq_search(i) \/ pq_generate(i) \/ pq_stream(i)

SpecContext == Init /\ [][NextContext]_vars

\* ------------------------------------------------------------------ a rename beside a chat request
\* One client sends the first message of a session while another renames it.
chatOverlapping(i, op, sessionId) ==
    /\ ~Running(tasks[i]) /\ i = 1
    /\ chat_history[sessionId].present /\ chat_history[sessionId].val = <<>>
    /\ Call(i, [IdleTask EXCEPT !.op = op, !.pc = "h_begin",
                                !.reqMessage = Str(<<"a">>), !.reqSid = sessionId,
                                !.existedAtStart = Existing(sessionId)])
    /\ UNCHANGED storeVars

updateSessionTitleOverlapping(i, sessionId, newTitle) ==
    /\ ~Running(tasks[i]) /\ i = 2
    /\ Call(i, [IdleTask EXCEPT !.op = "updateSessionTitle", !.pc = "ust_get",
                                !.sid = sessionId, !.title = newTitle])
    /\ UNCHANGED storeVars

NextRename ==
    \E i \in TaskIds :
        \/ issued = {} /\ createSession(i, Undefined)
        \/ \E id \in issued, op \in Handlers : chatOverlapping(i, op, id)
        \/ \E id \in issued : updateSessionTitleOverlapping(i, id, Str(<<"b">>))
        \/ cs_setex_meta(i) \/ cs_setex_hist(i)
        \/ h_exists(i) \/ h_getHist(i) \/ sm_getSession(i) \/ sm_getHist2(i)
        \/ am_get(i) \/ am_setex(i)
        \/ usa_get(i) \/ usa_setex(i) \/ usa_expire(i)
        \/ ust_get(i) \/ ust_setex(i)
        \/ pq_embed(i) \/ pq_search(i) \/ pq_generate(i) \/ pq_stream(i)

SpecRename == Init /\ [][NextRename]_vars

\* ------------------------------------------------------------------ embeddings
\* array.filter((text) => text && text.trim().length > 0)
RECURSIVE FilterValid(_)
FilterValid(texts) ==
    IF texts = <<>> THEN <<>>
    ELSE IF IsBlank(Head(texts)) THEN FilterValid(Tail(texts))
    ELSE <<Head(texts)>> \o FilterValid(Tail(texts))

\* array.join(" ")
RECURSIVE JoinSpace(_)
JoinSpace(texts) ==
    IF texts = <<>> THEN <<>>
    ELSE IF Len(texts) = 1 THEN Head(texts)
    ELSE Head(texts) \o <<" ">> \o JoinSpace(Tail(texts))

\* [title, description, content].filter(...).join(" ").trim().substring(0, 8000)
CombinedText(article) ==
    Substring(Trim(JoinSpace(FilterValid(
        <<article.title, article.description, article.content>>))), 0, EmbedTextMax)

\* what the embedding API answers for one text, and the value of an array
\* read past its end
Embedding(text) == [k |-> "vector", of |-> text]
NoEmbedding == [k |-> "undefined", of |-> <<>>]

EmbedArticle(title, description) ==
    [title |-> title, description |-> description, content |-> <<>>]

EmbedArticles ==
    {EmbedArticle(title, description) :
        title \in {<<>>, <<" ">>, <<"a">>, <<"b">>}, description \in {<<>>, <<"d">>}}

ArticleLists == UNION {[1..n -> EmbedArticles] : n \in 0..MaxEmbedArticles}

\* embedArticles(articles), up to the request of embedTexts: the combined
\* texts; embedTexts throws on an empty list and on a list of blank texts
embedArticles(i, articles) ==
    /\ Quiet /\ i = 1
    /\ LET texts == [k \in DOMAIN articles |-> CombinedText(articles[k])]
           t == [IdleTask EXCEPT !.op = "embedArticles", !.articles = articles]
       IN  IF Len(texts) = 0 THEN Call(i, Throw(t, "Texts array cannot be empty"))
           ELSE IF FilterValid(texts) = <<>>
           THEN Call(i, Throw(t, "No valid texts to embed"))
           ELSE Call(i, [t EXCEPT !.pc = "et_post", !.texts = texts])
    /\ UNCHANGED storeVars

\* axios.post(baseURL, { input: validTexts }): one embedding for each text
\* sent, in their order, or a failure; then
\* articles.map((article, index) => ({ ...article, embedding: result.embeddings[index] }))
et_post(i) ==
    /\ tasks[i].pc = "et_post"
    /\ LET t == tasks[i]
           validTexts == FilterValid(t.texts)
           embeddings == [k \in DOMAIN validTexts |-> Embedding(validTexts[k])]
       IN  \/ Call(i, Throw([t EXCEPT !.texts = <<>>], "ApiError"))
           \/ Call(i, Return([t EXCEPT
                  !.texts = <<>>,
                  !.articlesWithEmbeddings =
                     [index \in DOMAIN t.articles |->
                        [article |-> t.articles[index],
                         embedding |-> IF index <= Len(embeddings)
                                       THEN embeddings[index] ELSE NoEmbedding]]]))
    /\ UNCHANGED storeVars

NextEmbed ==
    \E i \in TaskIds :
        \/ \E articles \in ArticleLists : embedArticles(i, articles)
        \/ et_post(i)

SpecEmbed == Init /\ [][NextEmbed]_vars

\* ------------------------------------------------------------------ claims
StoredIds == {id \in SessionIds : session[id].present}

\* C1: every stored session's title is a string that is neither empty nor
\* whitespace only, whatever titles and messages the calls were given.
C1_TitleNeverBlank ==
    \A id \in StoredIds :
        /\ session[id].val.title.k = "string"
        /\ ~IsBlank(session[id].val.title.s)

\* C1 witness: createSession was given a blank title and has stored a session.
C1_Witness ==
    \E i \in TaskIds :
        /\ tasks[i].op = "createSession" /\ tasks[i].result = "ok"
        /\ tasks[i].title.k = "string" /\ IsBlank(tasks[i].title.s)
        /\ session[tasks[i].sid].present
        /\ session[tasks[i].sid].val.title = Str(NewChat)

\* C2 (as claimed): with no call in progress and no store failure, a session's
\* messageCount is the number of turns in its stored history.
C2_CountIsHistoryLength ==
    (Quiet /\ faults = 0) =>
        \A id \in StoredIds :
            chat_history[id].present =>
                session[id].val.messageCount = Len(chat_history[id].val)

\* C3 (as claimed): when addMessage calls run one at a time, the write of an
\* addMessage leaves the stored history as it was, with the new turn added at
\* its end.
C3_AppendOnly ==
    [][\A i \in TaskIds :
          (tasks[i].pc = "am_setex" /\ tasks'[i].pc = "usa_get") =>
              LET id == tasks[i].sid
                  turn == tasks[i].chatHistory[Len(tasks[i].chatHistory)]
              IN  chat_history'[id].val = Append(chat_history[id].val, turn)]_vars

\* what one request sent to its own socket, in order
SocketEvents(t) == SelectSeq(t.events, LAMBDA ev : ev.to = "socket")
Completes(t) == SelectSeq(SocketEvents(t), LAMBDA ev : ev.ev = "stream-complete")
StreamChunks(t) == SelectSeq(SocketEvents(t), LAMBDA ev : ev.ev = "stream-chunk")

RECURSIVE Concat(_)
Concat(texts) == IF texts = <<>> THEN <<>> ELSE Head(texts) \o Concat(Tail(texts))

\* the turns a request adds when all goes well: the user's and the answer's
TurnPairAdded(t) ==
    LET h == chat_history[t.sid].val
        n == Len(t.historyAtStart)
    IN  /\ Len(h) = n + 2
        /\ SubSeq(h, 1, n) = t.historyAtStart
        /\ h[n + 1].type = "user" /\ h[n + 1].content = Trim(t.reqMessage.s)
        /\ h[n + 2].type = "assistant" /\ h[n + 2].content = t.ragResult.response

\* the answer a request handler gave its caller
Answered(t, text) ==
    IF t.op = "sendMessage"
    THEN \E k \in DOMAIN t.events :
            /\ t.events[k].to = "socket" /\ t.events[k].ev = "stream-complete"
            /\ t.events[k].text = text
    ELSE \E k \in DOMAIN t.events :
            /\ t.events[k].to = "http" /\ t.events[k].ev = "200"
            /\ t.events[k].text = text

UpstreamFailures == {"embeddingFailed", "searchFailed", "generationFailed"}

FallbackTexts ==
    {ErrorText} \cup
    {GenerationFallback("processQueryWithContext", [k \in 1..n |-> Article(k)]) :
        n \in 1..MaxArticles}

\* C4 (as claimed): a request whose embedding, search or generation call
\* failed, with no store failure, has answered with the fallback text and has
\* added exactly the user's turn and an assistant turn holding that text.
C4_FallbackPairAdded ==
    \A i \in TaskIds :
        LET t == tasks[i]
        IN  (/\ Finished(t) /\ t.op \in Handlers
             /\ t.outcome \in UpstreamFailures /\ ~t.storeFailed) =>
                /\ t.ragResult.response \in FallbackTexts
                /\ Answered(t, t.ragResult.response)
                /\ TurnPairAdded(t)

\* C5 (as claimed): with no request in progress, every user turn of a stored
\* history is immediately followed by an assistant turn.
C5_UserTurnAnswered ==
    Quiet =>
        \A id \in SessionIds :
            LET h == chat_history[id].val
            IN  \A k \in DOMAIN h :
                    h[k].type = "user" => (k < Len(h) /\ h[k + 1].type = "assistant")

\* C6 (as claimed): a send-message that has been handled has sent exactly one
\* stream-complete to its socket.
C6_ExactlyOneComplete ==
    \A i \in TaskIds :
        (Finished(tasks[i]) /\ tasks[i].op = "sendMessage") =>
            Len(Completes(tasks[i])) = 1

\* C6 (amended): a send-message never sends more than one stream-complete;
\* once handled, it has sent exactly one if it reached the pipeline, whatever
\* the pipeline's outcome, and otherwise (invalid message, or a store failure
\* before the pipeline) none, but one error event instead.
C6_OneCompletePerPipelineRun ==
    \A i \in TaskIds :
        LET t == tasks[i]
        IN  t.op = "sendMessage" =>
                /\ Len(Completes(t)) <= 1
                /\ Finished(t) =>
                      IF t.outcome \in UpstreamFailures \cup {"noArticles", "generated"}
                      THEN Len(Completes(t)) = 1
                      ELSE /\ Len(Completes(t)) = 0
                           /\ Len(SelectSeq(SocketEvents(t),
                                            LAMBDA ev : ev.ev = "error")) = 1

\* C6 witness: the generation call of a send-message failed, and the one
\* stream-complete it sent carries the fallback text.
C6_Witness ==
    \E i \in TaskIds :
        /\ Finished(tasks[i]) /\ tasks[i].op = "sendMessage"
        /\ tasks[i].outcome = "generationFailed"
        /\ Len(Completes(tasks[i])) = 1
        /\ Completes(tasks[i])[1].text = tasks[i].ragResult.response

\* C7: with a socket listening, the stream-chunk events carry the fragments
\* the generator yielded, one event per fragment in the same order; and when
\* generation succeeded one stream-complete follows them, its response being
\* the chunk payloads concatenated in emission order.
C7_ChunksInOrder ==
    \A i \in TaskIds :
        LET t == tasks[i]
            sent == SocketEvents(t)
            chunks == [k \in DOMAIN StreamChunks(t) |-> StreamChunks(t)[k].text]
        IN  ((t.op = "sendMessage" \/ t.socket) /\ t.outcome = "generated") =>
                /\ chunks = t.yielded
                /\ Len(Completes(t)) = 1
                /\ sent # <<>>
                /\ \E k \in DOMAIN sent :
                      /\ sent[k].ev = "stream-complete"
                      /\ sent[k].text = Concat(chunks)
                      /\ \A j \in 1..(k - 1) : sent[j].ev = "stream-chunk"
                      /\ Len(StreamChunks(t)) = k - 1

\* C7 witness: a stream of two different fragments, one of them after an
\* empty one, has been generated and completed.
C7_Witness ==
    \E i \in TaskIds :
        /\ tasks[i].socket /\ tasks[i].outcome = "generated"
        /\ tasks[i].yielded = <<<<>>, <<"x">>>>
        /\ Len(Completes(tasks[i])) = 1

\* C8 (as claimed): nothing a send-message sends to its socket after its
\* stream-complete is a stream-chunk or an error.
C8_CompleteIsTerminal ==
    \A i \in TaskIds :
        LET sent == SocketEvents(tasks[i])
        IN  \A k \in DOMAIN sent, j \in DOMAIN sent :
                (k < j /\ sent[k].ev = "stream-complete") =>
                    sent[j].ev \notin {"stream-chunk", "error"}

\* C9: a pipeline entry point that has returned did not raise, and after a
\* failure of the embedding, search or generation call its result carries a
\* non-empty response, a list of sources and the session id it was given.
C9_NeverRaises ==
    \A i \in TaskIds :
        LET t == tasks[i]
        IN  (Finished(t) /\ t.op \in Variants) =>
                /\ t.result = "ok"
                /\ t.outcome \in UpstreamFailures =>
                      /\ t.ragResult.response # <<>>
                      /\ DOMAIN t.ragResult.sources = 1..Len(t.ragResult.sources)
                      /\ t.ragResult.sessionId = t.sid

\* C9 witness: the embedding call of a contextual streaming query has failed
\* and the query has returned the error text for its session.
C9_Witness ==
    \E i \in TaskIds :
        /\ Finished(tasks[i]) /\ tasks[i].op = "processQueryWithContextStream"
        /\ tasks[i].outcome = "embeddingFailed"
        /\ tasks[i].sid \in SessionIds
        /\ tasks[i].ragResult.response = ErrorText
        /\ tasks[i].ragResult.sessionId = tasks[i].sid

\* C10 (as claimed): a request whose retrieval found no article has got the
\* fixed "no relevant articles" message with no sources, and the history has
\* gained exactly the user's turn and that message, in this order.
C10_NoArticlesPairAdded ==
    \A i \in TaskIds :
        LET t == tasks[i]
        IN  (/\ Finished(t) /\ t.op \in Handlers
             /\ t.outcome = "noArticles" /\ ~t.storeFailed) =>
                /\ t.ragResult.response = NoArticlesText
                /\ t.ragResult.sources = <<>>
                /\ TurnPairAdded(t)

\* C11: a request whose message is missing, no string or blank is over as soon
\* as it arrives: it has answered with an error (error event, HTTP 400), it has
\* resolved no session, called no pipeline, and the store is as it was.
C11_InvalidRejected ==
    [][\A i \in TaskIds :
          (/\ ~Running(tasks[i]) /\ tasks'[i] # tasks[i]
           /\ tasks'[i].op \in Handlers
           /\ (tasks'[i].reqMessage.k # "string" \/ IsBlank(tasks'[i].reqMessage.s))) =>
              /\ session' = session /\ chat_history' = chat_history /\ issued' = issued
              /\ tasks'[i].pc = "done"
              /\ tasks'[i].sid = NoId /\ tasks'[i].ragResult = NoResult
              /\ Len(tasks'[i].events) = 1
              /\ tasks'[i].events[1].ev = (IF tasks'[i].op = "sendMessage"
                                           THEN "error" ELSE "400")]_vars

\* C11 witness: a blank message sent for an existing session has been
\* rejected, while a stored conversation exists.
C11_Witness ==
    \E i \in TaskIds, id \in SessionIds, other \in SessionIds :
        /\ Finished(tasks[i]) /\ tasks[i].op \in Handlers
        /\ tasks[i].reqMessage = Str(<<" ">>) /\ tasks[i].reqSid = id
        /\ tasks[i].outcome = "invalid"
        /\ session[id].present
        /\ chat_history[other].present /\ Len(chat_history[other].val) = 2

\* C12 (as claimed): an accepted request that has been answered used the
\* session it named if that session existed and a new session otherwise; the
\* session id in its answer and in its stream events is the id of the session
\* whose history ends with its user turn and its assistant turn; and while
\* requests run, only the history of a running request's session changes.
C12_SessionResolved ==
    /\ [](\A i \in TaskIds :
            LET t == tasks[i]
                h == chat_history[t.sid].val
            IN  (/\ Finished(t) /\ t.op \in Handlers
                 /\ t.result = "ok" /\ t.outcome # "invalid") =>
                    /\ t.existedAtStart => (t.sid = t.reqSid /\ ~t.isNewSession)
                    /\ ~t.existedAtStart => t.isNewSession
                    /\ \A k \in DOMAIN t.events :
                          t.events[k].ev \in {"stream-chunk", "stream-complete", "200"}
                             => t.events[k].sessionId = t.sid
                    /\ Len(h) >= 2
                    /\ h[Len(h) - 1].type = "user"
                    /\ h[Len(h) - 1].content = Trim(t.reqMessage.s)
                    /\ h[Len(h)].type = "assistant"
                    /\ h[Len(h)].content = t.ragResult.response)
    /\ [][\A i \in TaskIds :
            (tasks[i].op \in Handlers /\ Running(tasks[i])) =>
                \A id \in SessionIds \ {tasks[i].sid} :
                    chat_history'[id] = chat_history[id]]_vars

\* C13 (as claimed): a request that was answered for a session that existed
\* with an empty history when the request arrived (its title is then the
\* default one: nothing else titles a session that has no turn) leaves the
\* session titled with the title derived from the request's message.
C13_FirstMessageTitles ==
    \A i \in TaskIds :
        LET t == tasks[i]
        IN  (/\ Finished(t) /\ t.op \in Handlers
             /\ t.result = "ok" /\ t.outcome # "invalid"
             /\ t.existedAtStart /\ t.historyAtStart = <<>>
             /\ session[t.sid].present) =>
                session[t.sid].val.title =
                    Str(AutoTitle(Str(Trim(t.reqMessage.s))).val)

\* C14: when autoGenerateTitle(id, m) has returned for an existing session and
\* a non-blank string m, with no store command failing, the stored title is
\* trim(m) if that has at most 50 characters and otherwise its first 47
\* characters followed by "..."; it is never longer than 50 characters.
C14_DerivedTitle ==
    \A i \in TaskIds :
        LET t == tasks[i]
            m == Trim(t.firstMessage.s)
            title == session[t.sid].val.title
        IN  (/\ Finished(t) /\ t.op = "autoGenerateTitle"
             /\ t.firstMessage.k = "string" /\ m # <<>>
             /\ ~t.storeFailed
             /\ session[t.sid].present) =>
                /\ title.k = "string"
                /\ Len(m) <= TitleMax => title.s = m
                /\ Len(m) > TitleMax =>
                      title.s = SubSeq(m, 1, TitleCut) \o <<".", ".", ".">>
                /\ Len(title.s) <= TitleMax

\* C14 witness: autoGenerateTitle has returned for a message longer than 50
\* characters and the stored title has exactly 50.
C14_Witness ==
    \E i \in TaskIds :
        /\ Finished(tasks[i]) /\ tasks[i].op = "autoGenerateTitle"
        /\ ~tasks[i].storeFailed
        /\ Len(Trim(tasks[i].firstMessage.s)) > TitleMax
        /\ session[tasks[i].sid].present
        /\ Len(session[tasks[i].sid].val.title.s) = TitleMax

\* C15 (amended): when updateSessionTitle(id, T) has returned for an existing
\* session and a string T, getSession(id) reads the title trim(T) if T is not
\* blank and "New Chat" if T is empty or whitespace only.
C15_TitleRoundTripTrimmed ==
    \A i \in TaskIds :
        LET t == tasks[i]
        IN  (/\ Finished(t) /\ t.op = "updateSessionTitle" /\ t.result = "ok"
             /\ t.title.k = "string"
             /\ session[t.sid].present) =>
                GetSession(session[t.sid]).title =
                    IF IsBlank(t.title.s) THEN Str(NewChat)
                    ELSE Str(Trim(t.title.s))

\* C15 (as claimed): the title read back is exactly T for every non-blank T.
C15_TitleRoundTripExact ==
    \A i \in TaskIds :
        LET t == tasks[i]
        IN  (/\ Finished(t) /\ t.op = "updateSessionTitle" /\ t.result = "ok"
             /\ t.title.k = "string"
             /\ session[t.sid].present) =>
                GetSession(session[t.sid]).title =
                    IF IsBlank(t.title.s) THEN Str(NewChat) ELSE t.title

\* C15 witness: updateSessionTitle has returned for a non-blank title with
\* surrounding spaces.
C15_Witness ==
    \E i \in TaskIds :
        /\ Finished(tasks[i]) /\ tasks[i].op = "updateSessionTitle"
        /\ tasks[i].result = "ok"
        /\ tasks[i].title = Str(<<" ", "a", " ">>)
        /\ session[tasks[i].sid].present
        /\ GetSession(session[tasks[i].sid]).title = Str(<<"a">>)

\* deleteSession(id) has returned at some time and no call is in progress.
DeleteCompleted(id) ==
    /\ Quiet
    /\ \E i \in TaskIds :
          /\ Finished(tasks[i]) /\ tasks[i].op = "deleteSession"
          /\ tasks[i].sid = id /\ tasks[i].result = "ok"

\* C16 (as claimed): once deleteSession(id) has completed with no other call in
\* progress, the metadata key of id is absent (sessionExists reads false) and
\* the history key of id is absent (getChatHistory reads null, not a list), at
\* that time and whenever no call is in progress later (createSession never
\* issues an id twice).
C16_DeletedStaysGone ==
    \A id \in SessionIds :
        DeleteCompleted(id) =>
            ~session[id].present /\ ~chat_history[id].present

\* C19: the step in which addMessage reads the history of an id whose history
\* key is absent ends the call with an error, which is "Session not found"
\* unless the read itself failed, and leaves every key and every expiry of the
\* store as it was.
C19_AbsentHistoryRejected ==
    [][\A i \in TaskIds :
        (/\ tasks[i].op = "addMessage" /\ tasks[i].pc = "am_get"
         /\ ~chat_history[tasks[i].sid].present
         /\ tasks'[i] # tasks[i]) =>
            /\ tasks'[i].pc = "done" /\ tasks'[i].result = "error"
            /\ ~tasks'[i].storeFailed => tasks'[i].error = "Session not found"
            /\ session' = session /\ chat_history' = chat_history]_vars

\* C19 witness: addMessage has failed with "Session not found" on a session
\* whose metadata is stored and whose history key has expired.
C19_Witness ==
    \E i \in TaskIds :
        /\ Finished(tasks[i]) /\ tasks[i].op = "addMessage"
        /\ tasks[i].result = "error" /\ tasks[i].error = "Session not found"
        /\ session[tasks[i].sid].present
        /\ ~chat_history[tasks[i].sid].present

\* C20 (as claimed): the step that completes a successful addMessage leaves
\* the metadata key and the history key of its session stored with the full
\* retention window as their time to live; and no step of sessionExists
\* changes a stored record or an expiry.
C20_AddMessageRefreshesBoth ==
    [][\A i \in TaskIds :
        LET id == tasks[i].sid
        IN  /\ (/\ tasks[i].op = "addMessage" /\ Running(tasks[i])
                /\ Finished(tasks'[i]) /\ tasks'[i].result = "ok") =>
                    /\ session'[id].present /\ session'[id].ttl = sessionTTL
                    /\ chat_history'[id].present
                    /\ chat_history'[id].ttl = sessionTTL
            /\ (/\ tasks[i].op = "sessionExists" /\ Running(tasks[i])
                /\ tasks'[i] # tasks[i]) =>
                    session' = session /\ chat_history' = chat_history]_vars

\* A deleteSession on id has removed the metadata key and not yet the history
\* key, which is still stored.
HalfDeleted(id) ==
    /\ ~session[id].present /\ chat_history[id].present
    /\ \E j \in TaskIds :
          /\ tasks[j].op = "deleteSession" /\ tasks[j].pc = "ds_del_hist"
          /\ tasks[j].sid = id

\* C17 (as claimed): deleteSession removes the two keys of a session as one
\* step for every other call: while one key is removed and the other is still
\* stored, no other call's command reads a key of that session.
C17_DeleteAtomic ==
    [][\A i \in TaskIds :
        (/\ tasks[i].pc \in {"se_exists", "gch_get", "am_get", "usa_get"}
         /\ HalfDeleted(tasks[i].sid)) =>
            tasks'[i] = tasks[i]]_vars

\* C18: nothing makes addMessage's read and write of the history one step: the
\* write stores the history the call has read plus its own turn, whatever is
\* stored by then, so a turn that another call has stored since the read is
\* overwritten.
C18_LastWriteWins ==
    [][\A i \in TaskIds :
        (/\ tasks[i].op = "addMessage" /\ tasks[i].pc = "am_setex"
         /\ tasks'[i].pc # "am_setex") =>
            chat_history'[tasks[i].sid].val = tasks[i].chatHistory]_vars

\* C18 witness: two overlapping addMessage calls on one session, with different
\* turns, have both returned and the stored history holds one turn only.
C18_Witness ==
    \E i, j \in TaskIds :
        /\ i # j
        /\ Finished(tasks[i]) /\ tasks[i].op = "addMessage" /\ tasks[i].result = "ok"
        /\ Finished(tasks[j]) /\ tasks[j].op = "addMessage" /\ tasks[j].result = "ok"
        /\ tasks[i].sid = tasks[j].sid
        /\ tasks[i].message # tasks[j].message
        /\ chat_history[tasks[i].sid].present
        /\ Len(chat_history[tasks[i].sid].val) = 1
        /\ chat_history[tasks[i].sid].val[1].content = tasks[j].message.content
        /\ session[tasks[i].sid].present

\* The calls that write to a session.
Writers == {"addMessage", "updateSessionTitle", "autoGenerateTitle", "clearChatHistory"}

\* C21 (as claimed): the step that completes a successful write to a session
\* whose two keys are stored (addMessage, updateSessionTitle, clearChatHistory,
\* or autoGenerateTitle with a message that is not blank) leaves both keys
\* stored with the full retention window as their time to live.
C21_WriteResetsBoth ==
    [][\A i \in TaskIds :
        LET t == tasks[i]
            id == t.sid
        IN  (/\ t.op \in Writers /\ Running(t)
             /\ Finished(tasks'[i]) /\ tasks'[i].result = "ok"
             /\ ~tasks'[i].storeFailed
             /\ t.op = "autoGenerateTitle" =>
                    (t.firstMessage.k = "string" /\ ~IsBlank(t.firstMessage.s))
             /\ session[id].present /\ chat_history[id].present) =>
                /\ session'[id].present /\ session'[id].ttl = sessionTTL
                /\ chat_history'[id].present
                /\ chat_history'[id].ttl = sessionTTL]_vars

\* C22 (as claimed): the step that completes a successful clearChatHistory on a
\* session whose two keys are stored leaves the history stored as the empty
\* list, the metadata record as it was, and the time to live of the metadata
\* key and of the history key as they were.
C22_ClearKeepsMetadataAndExpiry ==
    [][\A i \in TaskIds :
        LET t == tasks[i]
            id == t.sid
        IN  (/\ t.op = "clearChatHistory" /\ Running(t)
             /\ Finished(tasks'[i]) /\ tasks'[i].result = "ok"
             /\ session[id].present /\ chat_history[id].present) =>
                /\ chat_history'[id].present /\ chat_history'[id].val = <<>>
                /\ session'[id].present /\ session'[id].val = session[id].val
                /\ session'[id].ttl = session[id].ttl
                /\ chat_history'[id].ttl = chat_history[id].ttl]_vars

\* C23 (as claimed): the read of getChatHistory(id, limit) with limit >= 0
\* returns the last min(limit, |h|) turns of the stored history h, in the
\* stored order, and null when the history key is absent.
C23_LastLimitTurns ==
    [][\A i \in TaskIds :
        LET t == tasks[i]
            key == chat_history[t.sid]
            h == key.val
            n == IF t.limit < Len(h) THEN t.limit ELSE Len(h)
        IN  (/\ t.op = "getChatHistory" /\ t.pc = "gch_get" /\ t.limit >= 0
             /\ tasks'[i] # t /\ ~tasks'[i].storeFailed) =>
                /\ Finished(tasks'[i]) /\ tasks'[i].result = "ok"
                /\ key.present =>
                      tasks'[i].ret = RetList(SubSeq(h, Len(h) - n + 1, Len(h)))
                /\ ~key.present => tasks'[i].ret = RetNull]_vars

\* A title that is a string with something other than whitespace in it.
ValidTitle(title) == title.k = "string" /\ ~IsBlank(title.s)

\* C24: while getAllSessions runs, a step rewrites a stored record only if its
\* title was blank or missing, and then with the title "New Chat" and every
\* other field as it was; and the step that completes the call returns each
\* stored session once, with the title that is stored for it, which is not
\* blank, the most recent lastActivity first.
C24_ListRepairsBlankTitles ==
    [][\A i \in TaskIds :
        LET t == tasks[i]
            list == tasks'[i].sessions
        IN  (t.op = "getAllSessions" /\ Running(t)) =>
                /\ \A id \in SessionIds :
                      session'[id] # session[id] =>
                         /\ session[id].present /\ ~ValidTitle(session[id].val.title)
                         /\ session'[id].present
                         /\ session'[id].val =
                               [session[id].val EXCEPT !.title = Str(NewChat)]
                /\ (Finished(tasks'[i]) /\ tasks'[i].result = "ok") =>
                      /\ {list[n].id : n \in DOMAIN list} = StoredIds
                      /\ Len(list) = Cardinality(StoredIds)
                      /\ \A n \in DOMAIN list :
                            /\ ValidTitle(list[n].title)
                            /\ list[n].title = session'[list[n].id].val.title
                            /\ list[n].lastActivity = session'[list[n].id].val.lastActivity
                      /\ \A a, b \in DOMAIN list :
                            a < b => list[a].lastActivity >= list[b].lastActivity]_vars

\* C24 witness: getAllSessions has returned two sessions of different
\* lastActivity, and one of them, created earlier with a blank title and never
\* written to since, is stored as "New Chat" with a fresh expiry.
C24_Witness ==
    \E i \in TaskIds :
        /\ Finished(tasks[i]) /\ tasks[i].op = "getAllSessions"
        /\ tasks[i].result = "ok"
        /\ Len(tasks[i].sessions) = 2
        /\ tasks[i].sessions[1].lastActivity > tasks[i].sessions[2].lastActivity
        /\ \E id \in StoredIds :
              /\ session[id].val.title = Str(NewChat)
              /\ session[id].val.messageCount = 0
              /\ session[id].val.createdAt < now
              /\ session[id].ttl = sessionTTL

\* The positions of a request at which an upstream call is awaited.
UpstreamLabels == {"pq_embed", "pq_search", "pq_generate", "pq_stream"}

\* C25: every step of a chat request keeps the order of its single pass. The
\* embedding call is reached once, from outside the pipeline, with no answer
\* determined yet and the request's user turn stored last in its session's
\* history; the search call is reached only from the embedding call; the
\* generation call only from a search that returned at least one article, and
\* its stream only from the generation call; and a step that stores an
\* assistant turn stores the response text the pipeline has returned.
C25_SinglePassInOrder ==
    [][\A i \in TaskIds :
        LET t == tasks[i]
            u == tasks'[i]
            h == chat_history[u.sid]
            w == chat_history'[t.sid].val
        IN  (t.op \in Handlers /\ u # t) =>
                /\ u.pc = "pq_embed" =>
                      /\ t.pc \notin UpstreamLabels /\ t.ragResult = NoResult
                      /\ h.present /\ h.val # <<>>
                      /\ h.val[Len(h.val)].type = "user"
                      /\ h.val[Len(h.val)].content = Trim(t.reqMessage.s)
                /\ u.pc = "pq_search" => t.pc = "pq_embed"
                /\ u.pc = "pq_generate" =>
                      t.pc = "pq_search" /\ u.relevantArticles # <<>>
                /\ u.pc = "pq_stream" => t.pc \in {"pq_generate", "pq_stream"}
                /\ (/\ t.pc = "am_setex" /\ w # chat_history[t.sid].val
                    /\ w # <<>> /\ w[Len(w)].type = "assistant") =>
                      /\ t.ragResult # NoResult
                      /\ w[Len(w)].content = t.ragResult.response]_vars

\* C25 witness: a send-message has gone through embedding, search and a
\* generation stream of two fragments, and its session's history ends with the
\* assistant turn that carries the generated text.
C25_Witness ==
    \E i \in TaskIds :
        LET t == tasks[i]
            h == chat_history[t.sid].val
        IN  /\ Finished(t) /\ t.op = "sendMessage" /\ t.result = "ok"
            /\ t.outcome = "generated"
            /\ Len(StreamChunks(t)) = 2
            /\ Len(h) >= 2
            /\ h[Len(h)].type = "assistant"
            /\ h[Len(h)].content = t.ragResult.response
            /\ h[Len(h) - 1].type = "user"

\* What the caller of a finished request has been sent: a final answer
\* (stream-complete on the socket, the HTTP response) or an error.
CallerAnswered(t) ==
    \E k \in DOMAIN t.events :
        \/ t.events[k].to = "socket" /\ t.events[k].ev \in {"stream-complete", "error"}
        \/ t.events[k].to = "http" /\ t.events[k].ev \in {"200", "500"}

\* C26: when every awaited call returns or fails in the end, a chat request
\* that has been accepted and is running finishes, and its caller has then been
\* sent a final answer or an error.
C26_AdmittedQueryCompletes ==
    \A i \in TaskIds :
        (tasks[i].op \in Handlers /\ Running(tasks[i]))
            ~> (Finished(tasks[i]) /\ CallerAnswered(tasks[i]))

\* C26 witness: a request whose store command failed after its user turn was
\* stored has finished with an error sent to its caller.
C26_Witness ==
    \E i \in TaskIds :
        /\ Finished(tasks[i]) /\ tasks[i].op \in Handlers
        /\ tasks[i].storeFailed /\ tasks[i].result = "error"
        /\ tasks[i].sid \in SessionIds
        /\ chat_history[tasks[i].sid].val # <<>>
        /\ CallerAnswered(tasks[i])

\* C27 (as claimed): a chat request during which a store command failed has
\* ended with an error sent to its caller (the error event, HTTP 500), and has
\* created no session in place of a supplied session that exists.
C27_StoreFailureIsAnError ==
    \A i \in TaskIds :
        LET t == tasks[i]
        IN  (Finished(t) /\ t.op \in Handlers /\ t.storeFailed) =>
                /\ t.result = "error"
                /\ \E k \in DOMAIN t.events :
                      \/ t.events[k].to = "socket" /\ t.events[k].ev = "error"
                      \/ t.events[k].to = "http" /\ t.events[k].ev = "500"
                /\ t.existedAtStart => ~t.isNewSession

\* a title that is missing, empty or whitespace only
BlankTitle(title) ==
    title.k \in {"undefined", "null"} \/ (title.k = "string" /\ IsBlank(title.s))

TitleRoutes == {"putSession", "onUpdateSessionTitle"}

\* C28 (as claimed): no step of an update-session-title request (PUT
\* /sessions/:id, socket update-session-title) for a stored session whose title
\* is missing, empty or whitespace only changes the stored session (title,
\* lastActivity, time to live), and the request ends as a validation error
\* (unless a store command failed under it).
C28_BlankTitleRejected ==
    [][\A i \in TaskIds :
          LET u == tasks'[i]
          IN  (/\ tasks'[i] # tasks[i] /\ u.op \in TitleRoutes
               /\ BlankTitle(u.reqTitle) /\ Existing(u.reqSid)) =>
                  /\ session' = session
                  /\ (Finished(u) /\ ~u.storeFailed) => u.outcome = "invalid"]_vars

\* C29 (as claimed): when a DELETE /sessions/:id request on a session that
\* existed ends with no store failure, then (a) with neither flag set the
\* history is cleared and the session kept, and (b) with deleteSession=true both
\* keys of the session are gone, whatever clearHistory was.
C29_DeleteFlags ==
    [][\A i \in TaskIds :
          LET u == tasks'[i]
          IN  (/\ tasks'[i] # tasks[i] /\ Finished(u) /\ u.op = "deleteSessionRoute"
               /\ u.existedAtStart /\ ~u.storeFailed) =>
                  /\ (u.clearHistory = Undefined /\ u.deleteSession = Undefined) =>
                        /\ u.outcome = "cleared"
                        /\ session'[u.reqSid].present
                        /\ chat_history'[u.reqSid] = Setex(<<>>)
                  /\ u.deleteSession = TrueString =>
                        /\ u.outcome = "deleted"
                        /\ ~session'[u.reqSid].present
                        /\ ~chat_history'[u.reqSid].present]_vars

\* C30 (as claimed): when a create-session request (POST /sessions, socket
\* create-session) or a socket update-session-title request succeeds, the title
\* in what it sent (the 201 body and the session-created event, the
\* session-title-updated broadcast) is the title stored for the session.
C30_ReportedTitleIsStored ==
    [][\A i \in TaskIds :
          LET u == tasks'[i]
          IN  (/\ tasks'[i] # tasks[i] /\ Finished(u)
               /\ u.op \in {"postSessions", "onCreateSession", "onUpdateSessionTitle"}
               /\ u.outcome \in {"created", "updated"}) =>
                  u.sentTitle = GetSession(session'[u.sid]).title]_vars

\* C31: when a pipeline call returns, the sources of its result are the
\* retrieved articles in retrieval order, each as {title, url, source,
\* publishedAt, score}, at most 5 of them, if articles were retrieved (the
\* generation having succeeded or failed); they are the empty list when nothing
\* was retrieved or the embedding or the search failed.
C31_SourcesAreRetrieved ==
    [][\A i \in TaskIds :
          LET t == tasks[i]
              u == tasks'[i]
              retrieved == IF Running(t) THEN t.relevantArticles ELSE <<>>
              sources == u.ragResult.sources
          IN  (u # t /\ u.op \in Variants /\ Finished(u)) =>
                  /\ Len(sources) = Len(retrieved)
                  /\ Len(sources) <= maxContextArticles
                  /\ \A n \in DOMAIN sources :
                        sources[n] = [title |-> retrieved[n].title,
                                      url |-> retrieved[n].url,
                                      source |-> retrieved[n].source,
                                      publishedAt |-> retrieved[n].publishedAt,
                                      score |-> retrieved[n].score]
                  /\ u.outcome \in {"generated", "generationFailed"} <=> retrieved # <<>>]_vars

\* C31 witness: a call whose generation failed has returned the full five
\* sources.
C31_Witness ==
    \E i \in TaskIds :
        /\ Finished(tasks[i]) /\ tasks[i].op \in Variants
        /\ tasks[i].outcome = "generationFailed"
        /\ Len(tasks[i].ragResult.sources) = maxContextArticles

\* the failure kind of a finished pipeline call ("" when it generated)
FailureKind(t) ==
    CASE t.outcome = "noArticles" -> "noArticles"
      [] t.outcome = "generationFailed" -> "generationFailed"
      [] t.outcome \in {"embeddingFailed", "searchFailed", "contextFailed"} -> "failed"
      [] OTHER -> ""

Fallen(t) == Finished(t) /\ t.op \in Variants /\ FailureKind(t) # ""

\* C32 (as claimed): two pipeline calls that failed in different ways returned
\* different texts, and two calls that failed in the same way with the same
\* retrieved articles returned the same text.
C32_FallbackIsFunctionOfKind ==
    \A i, j \in TaskIds :
        (Fallen(tasks[i]) /\ Fallen(tasks[j])) =>
            /\ FailureKind(tasks[i]) # FailureKind(tasks[j]) =>
                  tasks[i].ragResult.response # tasks[j].ragResult.response
            /\ (/\ FailureKind(tasks[i]) = FailureKind(tasks[j])
                /\ tasks[i].ragResult.sources = tasks[j].ragResult.sources) =>
                  tasks[i].ragResult.response = tasks[j].ragResult.response

\* C32 (amended): two pipeline calls that failed in different ways returned
\* different texts, and two calls of the same pipeline that failed in the same
\* way with the same retrieved articles returned the same text.
C32_FallbackIsFunctionPerPipeline ==
    \A i, j \in TaskIds :
        (Fallen(tasks[i]) /\ Fallen(tasks[j])) =>
            /\ FailureKind(tasks[i]) # FailureKind(tasks[j]) =>
                  tasks[i].ragResult.response # tasks[j].ragResult.response
            /\ (/\ FailureKind(tasks[i]) = FailureKind(tasks[j])
                /\ tasks[i].variant = tasks[j].variant
                /\ tasks[i].ragResult.sources = tasks[j].ragResult.sources) =>
                  tasks[i].ragResult.response = tasks[j].ragResult.response

\* C32 witness: two calls of one pipeline have both lost their generation call
\* over the same two articles.
C32_Witness ==
    /\ Fallen(tasks[1]) /\ Fallen(tasks[2])
    /\ tasks[1].variant = tasks[2].variant
    /\ tasks[1].outcome = "generationFailed" /\ tasks[2].outcome = "generationFailed"
    /\ Len(tasks[1].ragResult.sources) = MaxArticles
    /\ tasks[1].ragResult.sources = tasks[2].ragResult.sources

\* the line a user or assistant turn contributes to the context
TurnLine(turn) ==
    <<IF turn.type = "user" THEN "User: " ELSE "Assistant: ">> \o turn.content
    \o <<"\n">>

\* C33: while a chat request is in its pipeline, the stored history is the
\* history before the request followed by the request's own user turn, and the
\* context of the pipeline is made of one line for each of the last min(10, n)
\* of the n turns before the request, in their order; it is empty when there
\* was no turn before, it holds nothing of the request's own turn, and a
\* pipeline called with no history has an empty context.
C33_ContextIsPriorWindow ==
    \A i \in TaskIds :
        LET t == tasks[i]
        IN  /\ (t.op \in Handlers /\ t.pc \in UpstreamLabels) =>
                  LET stored == chat_history[t.sid].val
                      n == Len(stored) - 1
                      k == IF n < 10 THEN n ELSE 10
                      window == [j \in 1..k |-> stored[n - k + j]]
                  IN  /\ n >= 0
                      /\ stored[n + 1].type = "user"
                      /\ stored[n + 1].content = Trim(t.reqMessage.s)
                      /\ t.conversationContext =
                            IF n = 0 THEN <<>>
                            ELSE <<"Previous conversation context:\n">>
                                 \o Concat([j \in 1..k |-> TurnLine(window[j])])
                                 \o <<"\n">>
                      /\ \A j \in DOMAIN t.conversationContext :
                            t.conversationContext[j] # "a"
            /\ (t.op \in Variants /\ t.pc \in UpstreamLabels /\ t.ctxHistory = NoContext) =>
                  t.conversationContext = <<>>

\* C33 witness: a request is at its generation call on a session that had
\* more than ten turns before it.
C33_Witness ==
    \E i \in TaskIds :
        /\ tasks[i].op \in Handlers /\ tasks[i].pc = "pq_generate"
        /\ Len(chat_history[tasks[i].sid].val) = MaxContextTurns + 1
        /\ Len(tasks[i].conversationContext) > 10

\* C34: every stored session record carries the id of the key it is stored
\* under and has lastActivity >= createdAt, and no step changes the id or the
\* createdAt of a session that stays stored.
C34_IdAndCreationFixed ==
    /\ [](\A id \in StoredIds :
            /\ session[id].val.id = id
            /\ session[id].val.lastActivity >= session[id].val.createdAt)
    /\ [][\A id \in SessionIds :
            (session[id].present /\ session'[id].present) =>
                /\ session'[id].val.id = session[id].val.id
                /\ session'[id].val.createdAt = session[id].val.createdAt]_vars

\* C34 witness: a session created after the start has been written again
\* later, and its title has been repaired by getAllSessions.
C34_Witness ==
    \E id \in StoredIds :
        /\ session[id].val.createdAt > 0
        /\ session[id].val.lastActivity > session[id].val.createdAt
        /\ session[id].val.messageCount > 0
        /\ \E i \in TaskIds :
              /\ Finished(tasks[i]) /\ tasks[i].op = "getAllSessions"
              /\ session[id].val.title = Str(NewChat)

\* C35 (as claimed): whenever no call is in progress, and no store command
\* has failed, a session's metadata key is stored exactly if its history key is
\* stored.
C35_KeysExistTogether ==
    (Quiet /\ faults = 0) => \A id \in SessionIds : session[id].present <=> chat_history[id].present

\* C36 (as claimed): when a deleteSession has returned and the addMessage
\* that ran beside it has finished, neither key of the deleted session is
\* stored.
C36_DeleteWinsRace ==
    \A i \in TaskIds :
        (/\ Finished(tasks[i]) /\ tasks[i].op = "deleteSession"
         /\ tasks[i].result = "ok"
         /\ \A j \in TaskIds \ {i} :
               Finished(tasks[j]) /\ tasks[j].op = "addMessage") =>
            /\ ~session[tasks[i].sid].present
            /\ ~chat_history[tasks[i].sid].present

\* C37 (as claimed): no step of a chat request changes the stored title of a
\* session whose title is not the default "New Chat".
C37_ExplicitTitleKept ==
    [][\A i \in TaskIds :
          (tasks[i].op \in Handlers /\ tasks'[i] # tasks[i]) =>
              \A id \in SessionIds :
                  (session[id].present /\ session[id].val.title # Str(NewChat)) =>
                      /\ session'[id].present
                      /\ session'[id].val.title = session[id].val.title]_vars

\* C38: a send-message that went through the pipeline and was handled to the
\* end has sent one stream-complete, and the last turn of the session's
\* history is the assistant turn whose content and sources are the response
\* and the sources of that stream-complete, whichever way the pipeline ended
\* (generated, no article, generation failed, embedding or search failed).
C38_CompleteIsPersisted ==
    \A i \in TaskIds :
        LET t == tasks[i]
            h == chat_history[t.sid].val
        IN  (/\ Finished(t) /\ t.op = "sendMessage" /\ t.result = "ok"
             /\ t.outcome \in UpstreamFailures \cup {"noArticles", "generated"}) =>
                /\ Len(Completes(t)) = 1
                /\ h # <<>>
                /\ h[Len(h)].type = "assistant"
                /\ h[Len(h)].content = Completes(t)[1].text
                /\ h[Len(h)].sources = Completes(t)[1].sources

\* C38 witness: the generation call of a handled send-message failed over two
\* articles, and its fallback text and two sources are stored.
C38_Witness ==
    \E i \in TaskIds :
        /\ Finished(tasks[i]) /\ tasks[i].op = "sendMessage" /\ tasks[i].result = "ok"
        /\ tasks[i].outcome = "generationFailed"
        /\ Len(Completes(tasks[i])) = 1
        /\ Len(Completes(tasks[i])[1].sources) = MaxArticles
        /\ chat_history[tasks[i].sid].val # <<>>
        /\ LET h == chat_history[tasks[i].sid].val
           IN  h[Len(h)].sources = Completes(tasks[i])[1].sources

\* the place of an event in the order of a send-message (0: not ordered)
EventRank(ev) ==
    CASE ev = "user-message" -> 1
      [] ev = "stream-chunk" -> 2
      [] ev = "stream-complete" -> 3
      [] ev = "assistant-message" -> 4
      [] OTHER -> 0

EventsNamed(t, ev) == SelectSeq(t.events, LAMBDA e : e.ev = ev)

\* C39: the events of a send-message come in the order user-message,
\* stream-chunk events, stream-complete, assistant-message, the first and the
\* last two at most once and none without the ones before it (chunks aside);
\* user-message is sent with the user turn stored, assistant-message with the
\* assistant turn stored as the last turn; and the step that stores the
\* assistant turn comes after stream-complete.
C39_EventAndWriteOrder ==
    /\ [](\A i \in TaskIds :
            LET t == tasks[i]
                E == t.events
                h == chat_history[t.sid].val
            IN  t.op = "sendMessage" =>
                    /\ \A a, b \in DOMAIN E :
                          (a < b /\ EventRank(E[a].ev) > 0 /\ EventRank(E[b].ev) > 0) =>
                              /\ EventRank(E[a].ev) <= EventRank(E[b].ev)
                              /\ E[a].ev = E[b].ev => E[a].ev = "stream-chunk"
                    /\ EventsNamed(t, "stream-chunk") # <<>> =>
                          EventsNamed(t, "user-message") # <<>>
                    /\ EventsNamed(t, "stream-complete") # <<>> =>
                          EventsNamed(t, "user-message") # <<>>
                    /\ EventsNamed(t, "assistant-message") # <<>> =>
                          /\ EventsNamed(t, "stream-complete") # <<>>
                          /\ h # <<>>
                          /\ h[Len(h)].type = "assistant"
                          /\ h[Len(h)].content = EventsNamed(t, "assistant-message")[1].text
                    /\ (EventsNamed(t, "user-message") # <<>> /\ Running(t)) =>
                          \E k \in DOMAIN h :
                              /\ h[k].type = "user"
                              /\ h[k].content = Trim(t.reqMessage.s)
                              /\ k >= Len(h) - 1)
    /\ [][\A i \in TaskIds :
            LET t == tasks[i]
                h == chat_history'[t.sid].val
            IN  (/\ t.op = "sendMessage" /\ Running(t) /\ t.sid \in SessionIds
                 /\ chat_history'[t.sid] # chat_history[t.sid]
                 /\ h # <<>> /\ h[Len(h)].type = "assistant") =>
                    /\ Len(EventsNamed(t, "stream-complete")) = 1
                    /\ EventsNamed(t, "assistant-message") = <<>>]_vars

\* C39 witness: a handled send-message has sent all four kinds of event, two
\* chunks among them.
C39_Witness ==
    \E i \in TaskIds :
        /\ Finished(tasks[i]) /\ tasks[i].op = "sendMessage"
        /\ Len(EventsNamed(tasks[i], "user-message")) = 1
        /\ Len(EventsNamed(tasks[i], "stream-chunk")) = MaxChunks
        /\ Len(EventsNamed(tasks[i], "stream-complete")) = 1
        /\ Len(EventsNamed(tasks[i], "assistant-message")) = 1

\* C40 (as claimed): when embedArticles has returned, every article of the
\* list carries the embedding of its own combined text.
C40_OwnEmbedding ==
    \A i \in TaskIds :
        LET t == tasks[i]
        IN  (Finished(t) /\ t.op = "embedArticles" /\ t.result = "ok") =>
                /\ Len(t.articlesWithEmbeddings) = Len(t.articles)
                /\ \A index \in DOMAIN t.articles :
                      /\ t.articlesWithEmbeddings[index].article = t.articles[index]
                      /\ t.articlesWithEmbeddings[index].embedding =
                            Embedding(CombinedText(t.articles[index]))

====
